---- MODULE Spec2Model ----
(***************************************************************************)
(* Model of the geospatial visualisation engine of EarthquakeMapWidget     *)
(* (src/src/earthquake_map_widget.cpp, src/doc/earthquake_map_missing_     *)
(* methods.cpp, src/src/spatial_utils.cpp).                                *)
(*                                                                         *)
(* Number representation.  The code computes in double; the model keeps    *)
(* every quantity as an integer in a fixed unit:                           *)
(*   degrees     1/100 degree        (latitude, longitude, bounds)         *)
(*   pixels      1/100 pixel         (screenPos, displaySize, distances)   *)
(*   zoom        1/20                (m_zoomLevel; 1.0 is 20)              *)
(*   magnitude   whole magnitudes,  depth whole km,  time whole ticks      *)
(* The epsilon tests of the code (1e-6) are far below one unit, so they    *)
(* become tests for inequality.  Distances are compared by their squares   *)
(* (sqrt is monotone).  Indices stored in the data (clusterId, the member  *)
(* lists of a cluster, hit-test results) keep the 0-based values of the    *)
(* code; -1 is "none".                                                     *)
(*                                                                         *)
(* The data mutex.  m_dataMutex is a non-recursive QMutex.  Every routine  *)
(* is modelled with its QMutexLocker; the record m_dataMutex keeps, for    *)
(* the handler that ran last, whether the mutex was acquired again by the  *)
(* thread that already held it (relock) and whether a recompute pass was   *)
(* entered while a mutating operation held it (recomputeHeld).  The data   *)
(* effects of a handler are modelled to its end, so that what the code     *)
(* computes can be examined separately from where it would block.          *)
(*                                                                         *)
(* Division by zero.  With a zoom level of zero screenToLatLon divides by   *)
(* zero.  The field zeroDivide says what the build makes of x / 0.0: with  *)
(* IEEE arithmetic an infinity, on which the loops of normalizeLongitude   *)
(* never end (the field hung is set and the handler does not return), or,  *)
(* the division being undefined behaviour, some finite value (the quotient *)
(* is taken as 0).  The field dividedByZero records that the handler that  *)
(* ran last divided by zero.                                               *)
(*                                                                         *)
(* Timers.  The field pendingSingleShots counts the single-shot timers of   *)
(* expandCluster that have not fired yet.                                  *)
(*                                                                         *)
(* Signals.  The field emitted lists the signals (centerChanged,           *)
(* zoomChanged, boundsChanged) that the handler that ran last has emitted. *)
(***************************************************************************)
EXTENDS Integers, Sequences, FiniteSets, TLC

VARIABLES widget, lastOp, hit

vars == <<widget, lastOp, hit>>

----------------------------------------------------------------------------
(* Bounds of the model *)

\* distinct events in the feed
MaxQuakes == 2

\* entries the record collection is let grow to
MaxMarkers == 3

\* longest input of parseCoordinate, in characters
MaxLen == 6

\* number of records of the bulk feed
MaxBulk == 501

\* most single-shot timers of expandCluster that are pending at a time
MaxTimers == 2

EventIds == 1..MaxQuakes

----------------------------------------------------------------------------
(* Program constants *)

MIN_ZOOM == 2

MAX_ZOOM == 1000

DEFAULT_EARTHQUAKE_SIZE == 800

DBL_MAX == 2000000000

\* ZOOM_FACTOR = 1.5 = ZOOM_FACTOR_NUM / ZOOM_FACTOR_DEN
ZOOM_FACTOR_NUM == 3

ZOOM_FACTOR_DEN == 2
ANIMATION_FPS == 30

NoTime == 0 - 1

Mercator == "Mercator"

Equirectangular == "Equirectangular"

----------------------------------------------------------------------------
(* Qt helpers *)

Abs(x) == IF x < 0 THEN -x ELSE x

qMax(a, b) == IF a < b THEN b ELSE a

qMin(a, b) == IF b < a THEN b ELSE a

qBound(lo, v, hi) == qMax(lo, qMin(hi, v))

isValidTime(t) == t # NoTime

\* QPointF::toPoint / qRound on 1/100 pixel: nearest whole pixel
toPoint(c) == IF c >= 0 THEN (c + 50) \div 100 ELSE -((-c + 50) \div 100)

RECURSIVE normalizeLongitude(_)
normalizeLongitude(lon) ==
    IF lon > 18000 THEN normalizeLongitude(lon - 36000)
    ELSE IF lon < -18000 THEN normalizeLongitude(lon + 36000)
    ELSE lon

\* MapBounds::contains
contains(b, lat, lon) ==
    /\ lat >= b.minLatitude /\ lat <= b.maxLatitude
    /\ lon >= b.minLongitude /\ lon <= b.maxLongitude

\* MapBounds::isValid
isValid(b) == b.minLatitude < b.maxLatitude /\ b.minLongitude < b.maxLongitude

----------------------------------------------------------------------------
(* Projection *)

\* log(tan(pi/4 + lat/2)) * 180/pi for the latitudes of the model,
\* rounded to 1/100 degree
MercatorLn ==
    [l \in {0, 1500, 3000, 4500, 6000, 7500} |->
        CASE l = 0 -> 0
          [] l = 1500 -> 1517
          [] l = 3000 -> 3147
          [] l = 4500 -> 5050
          [] l = 6000 -> 7546
          [] l = 7500 -> 11617]

mercatorProjection(lat, lon) ==
    [x |-> lon,
     y |-> IF Abs(lat) < 8500
           THEN (IF lat < 0 THEN -MercatorLn[-lat] ELSE MercatorLn[lat])
           ELSE (IF lat > 0 THEN 8500 ELSE -8500)]

equirectangularProjection(lat, lon) == [x |-> lon, y |-> lat]

projectCoordinate(w, lat, lon) ==
    IF w.m_settings.projection = Equirectangular
    THEN equirectangularProjection(lat, lon)
    ELSE mercatorProjection(lat, lon)

\* (2 * atan(exp(y * pi/180)) - pi/2) * 180/pi for the ordinates that
\* mercatorProjection produces, rounded to 1/100 degree
MercatorGd ==
    [y \in {0, 1517, 3147, 5050, 7546, 8500, 11617} |->
        CASE y = 0 -> 0
          [] y = 1517 -> 1500
          [] y = 3147 -> 3000
          [] y = 5050 -> 4500
          [] y = 7546 -> 6000
          [] y = 8500 -> 6444
          [] y = 11617 -> 7500]

\* projected is a QPointF: x the longitude, y the projected ordinate
unprojectCoordinate(w, projected) ==
    IF w.m_settings.projection = Mercator
    THEN [x |-> projected.x,
          y |-> IF projected.y < 0 THEN -MercatorGd[-projected.y]
                ELSE MercatorGd[projected.y]]
    ELSE projected

\* x = (px - centerLon) * zoom * width / 360 + width / 2, in 1/100 pixel:
\* zoom/20 * width/360 = zoom * (width/40) / 180
latLonToScreen(w, lat, lon) ==
    LET projected == projectCoordinate(w, lat, lon)
    IN [x |-> ((projected.x - w.m_centerLongitude) * w.m_zoomLevel
                  * (w.width \div 40)) \div 180 + 50 * w.width,
        y |-> ((w.m_centerLatitude - projected.y) * w.m_zoomLevel
                  * (w.height \div 20)) \div 180 + 50 * w.height]

\* the divisors of screenToLatLon, m_zoomLevel * width() and
\* m_zoomLevel * height(), are not both different from zero
zeroDivisor(w) == w.m_zoomLevel * w.width = 0 \/ w.m_zoomLevel * w.height = 0

\* screen in 1/100 pixel; with a zero divisor, the value of a build that
\* makes the quotient a finite number (taken as 0)
screenToLatLon(w, sx, sy) ==
    IF zeroDivisor(w)
    THEN [x |-> normalizeLongitude(w.m_centerLongitude),
          y |-> qBound(-9000, w.m_centerLatitude, 9000)]
    ELSE LET longitude == ((sx - 50 * w.width) * 7200) \div (w.m_zoomLevel * w.width)
                             + w.m_centerLongitude
             latitude == w.m_centerLatitude
                            - ((sy - 50 * w.height) * 3600) \div (w.m_zoomLevel * w.height)
         IN [x |-> normalizeLongitude(longitude), y |-> qBound(-9000, latitude, 9000)]

updateVisibleBounds(w) ==
    LET topLeft == screenToLatLon(w, 0, 0)
        bottomRight == screenToLatLon(w, 100 * w.width, 100 * w.height)
        w1 == [w EXCEPT !.m_visibleBounds =
                 [minLatitude |-> bottomRight.y,
                  maxLatitude |-> topLeft.y,
                  minLongitude |-> topLeft.x,
                  maxLongitude |-> IF topLeft.x > bottomRight.x
                                   THEN bottomRight.x + 36000 ELSE bottomRight.x]]
    IN IF ~zeroDivisor(w) THEN w1
       ELSE IF w.zeroDivide = "inf"
       THEN [w EXCEPT !.dividedByZero = TRUE, !.hung = TRUE]
       ELSE [w1 EXCEPT !.dividedByZero = TRUE]

----------------------------------------------------------------------------
(* Size *)

\* 100 * DEFAULT_EARTHQUAKE_SIZE * 2^(k/2); sqrt(2) is taken as 1.41421
RECURSIVE Pow2Half(_)
Pow2Half(k) ==
    IF k = 0 THEN 100 * DEFAULT_EARTHQUAKE_SIZE
    ELSE IF k = 1 THEN (141421 * DEFAULT_EARTHQUAKE_SIZE) \div 1000
    ELSE IF k > 1 THEN 2 * Pow2Half(k - 2)
    ELSE Pow2Half(k + 2) \div 2

getEarthquakeSize(data) == qBound(300, Pow2Half(data.magnitude - 3) \div 100, 5000)

\* qBound(0.5, sqrt(zoom), 3.0) in 1/100
ZoomScale(zoom) ==
    IF zoom * 500 <= 2500 THEN 50
    ELSE IF zoom * 500 >= 90000 THEN 300
    ELSE CHOOSE r \in 50..300 : r * r <= zoom * 500 /\ zoom * 500 < (r + 1) * (r + 1)

getScaledSize(w, baseSize) == (baseSize * ZoomScale(w.m_zoomLevel)) \div 100

----------------------------------------------------------------------------
(* Filtering *)

isEarthquakeVisible(w, data) ==
    contains(w.m_visibleBounds, data.latitude, data.longitude)

passesFilters(w, data) ==
    IF data.magnitude < w.m_minMagnitude \/ data.magnitude > w.m_maxMagnitude THEN FALSE
    ELSE IF data.depth < w.m_minDepth \/ data.depth > w.m_maxDepth THEN FALSE
    ELSE IF isValidTime(w.m_startTime) /\ data.timestamp < w.m_startTime THEN FALSE
    ELSE IF isValidTime(w.m_endTime) /\ data.timestamp > w.m_endTime THEN FALSE
    ELSE IF w.m_hasLocationFilter
            /\ ~contains(w.m_locationFilter, data.latitude, data.longitude) THEN FALSE
    ELSE TRUE

----------------------------------------------------------------------------
(* The data mutex (QMutexLocker locker(&m_dataMutex)) *)

\* operations that mutate the record collection
MutatingOps ==
    {"addEarthquake", "addEarthquakes", "updateEarthquake",
     "removeEarthquake", "clearEarthquakes"}

FreeMutex == [held |-> 0, holder |-> "", relock |-> FALSE, recomputeHeld |-> FALSE]

\* QMutexLocker constructor: who is the routine that declares the locker
lock(w, who) ==
    [w EXCEPT !.m_dataMutex =
        [held |-> w.m_dataMutex.held + 1,
         holder |-> IF w.m_dataMutex.held = 0 THEN who ELSE w.m_dataMutex.holder,
         relock |-> w.m_dataMutex.relock \/ w.m_dataMutex.held > 0,
         recomputeHeld |-> w.m_dataMutex.recomputeHeld]]

\* QMutexLocker destructor
unlock(w) ==
    [w EXCEPT !.m_dataMutex.held = w.m_dataMutex.held - 1,
              !.m_dataMutex.holder =
                  IF w.m_dataMutex.held = 1 THEN "" ELSE w.m_dataMutex.holder]

\* entry of a recompute pass (updateVisibleEarthquakes, updateClusters,
\* clearClusters): note whether a mutating operation holds the mutex
enterRecompute(w) ==
    [w EXCEPT !.m_dataMutex.recomputeHeld =
        w.m_dataMutex.recomputeHeld
        \/ (w.m_dataMutex.held > 0 /\ w.m_dataMutex.holder \in MutatingOps)]

----------------------------------------------------------------------------
(* Marker model *)

updateVisibleEarthquakes(w) ==
    LET w1 == lock(enterRecompute(w), "updateVisibleEarthquakes")
        w2 == [w1 EXCEPT !.m_earthquakes =
                 [i \in DOMAIN w1.m_earthquakes |->
                    LET eq == w1.m_earthquakes[i]
                    IN [eq EXCEPT
                          !.screenPos = latLonToScreen(w1, eq.data.latitude, eq.data.longitude),
                          !.isVisible = isEarthquakeVisible(w1, eq.data)
                                           /\ passesFilters(w1, eq.data),
                          !.displaySize = getEarthquakeSize(eq.data)]]]
    IN unlock(w2)

\* the VisualEarthquake that addEarthquake / addEarthquakes build for a new id
\* an animation phase is a number in 1/100 or one of the two pulses at a
\* frame: sin(frame * 0.3) * 0.5 + 0.5 and sin(frame * 0.1) * 0.3 + 0.7 are
\* kept as terms, no integer frame makes either of them 0.0 or 1.0 except
\* the fast pulse at frame 0, which is 0.5
ConstantPhase(value) == [kind |-> "constant", arg |-> value]
FastPulse(frame) == [kind |-> "fastPulse", arg |-> frame]
SlowPulse(frame) == [kind |-> "slowPulse", arg |-> frame]

newVisualEarthquake(w, earthquake) ==
    [data |-> earthquake,
     screenPos |-> latLonToScreen(w, earthquake.latitude, earthquake.longitude),
     displaySize |-> getEarthquakeSize(earthquake),
     animationPhase |-> ConstantPhase(0),
     isVisible |-> isEarthquakeVisible(w, earthquake),
     isHighlighted |-> FALSE,
     isSelected |-> FALSE,
     clusterId |-> 0 - 1]

\* position (1-based) of the first entry with this event id, 0 if none
indexOfId(eqs, eventId) ==
    IF \E i \in DOMAIN eqs : eqs[i].data.eventId = eventId
    THEN CHOOSE i \in DOMAIN eqs :
            /\ eqs[i].data.eventId = eventId
            /\ \A j \in 1..(i - 1) : eqs[j].data.eventId # eventId
    ELSE 0

----------------------------------------------------------------------------
(* Clustering *)

RECURSIVE SortedSeq(_)
SortedSeq(S) ==
    IF S = {} THEN <<>>
    ELSE LET m == CHOOSE x \in S : \A y \in S : x <= y
         IN <<m>> \o SortedSeq(S \ {m})

clearClusters(w) ==
    LET w1 == [enterRecompute(w) EXCEPT !.m_clusters = <<>>]
        w2 == lock(w1, "clearClusters")
        w3 == [w2 EXCEPT !.m_earthquakes =
                 [i \in DOMAIN w2.m_earthquakes |->
                    [w2.m_earthquakes[i] EXCEPT !.clusterId = 0 - 1]]]
    IN unlock(w3)

\* distance <= m_settings.clusterDistance, on squares
shouldCluster(w, eq1, eq2) ==
    LET dx == eq1.screenPos.x - eq2.screenPos.x
        dy == eq1.screenPos.y - eq2.screenPos.y
        d == w.m_settings.clusterDistance
    IN /\ Abs(dx) <= d
       /\ Abs(dy) <= d
       /\ dx * dx + dy * dy <= d * d

RECURSIVE clusterTotals(_, _, _)
\* the accumulation loop of createCluster over the 0-based member list
clusterTotals(w, ids, acc) ==
    IF ids = <<>> THEN acc
    ELSE LET eq == w.m_earthquakes[Head(ids) + 1]
         IN clusterTotals(w, Tail(ids),
                [totalX |-> acc.totalX + eq.screenPos.x,
                 totalY |-> acc.totalY + eq.screenPos.y,
                 totalMag |-> acc.totalMag + eq.data.magnitude,
                 maxMag |-> qMax(acc.maxMag, eq.data.magnitude),
                 latestTime |-> IF ~isValidTime(acc.latestTime)
                                   \/ eq.data.timestamp > acc.latestTime
                                THEN eq.data.timestamp ELSE acc.latestTime])

createCluster(w, earthquakeIds) ==
    LET n == Len(earthquakeIds)
        t == clusterTotals(w, earthquakeIds,
                [totalX |-> 0, totalY |-> 0, totalMag |-> 0, maxMag |-> 0,
                 latestTime |-> NoTime])
    IN [earthquakeIds |-> earthquakeIds,
        centerPos |-> [x |-> t.totalX \div n, y |-> t.totalY \div n],
        avgMagnitude |-> (100 * t.totalMag) \div n,
        maxMagnitude |-> t.maxMag,
        latestTime |-> t.latestTime,
        displaySize |-> qBound(1500, 1000 + n * 200, 5000),
        isExpanded |-> FALSE]

RECURSIVE clusterLoop(_, _, _)
\* the outer loop of updateClusters from position i (1-based) on;
\* clustered is the set of positions whose clustered[] flag is set
clusterLoop(w, i, clustered) ==
    IF i > Len(w.m_earthquakes) THEN w
    ELSE IF i \in clustered \/ ~w.m_earthquakes[i].isVisible
    THEN clusterLoop(w, i + 1, clustered)
    ELSE LET near == {j \in (i + 1)..Len(w.m_earthquakes) :
                        /\ j \notin clustered
                        /\ w.m_earthquakes[j].isVisible
                        /\ shouldCluster(w, w.m_earthquakes[i], w.m_earthquakes[j])}
             members == {i} \cup near
             clusterIndices == [k \in 1..Cardinality(members) |->
                                   SortedSeq(members)[k] - 1]
         IN IF Len(clusterIndices) > 1
            THEN LET w1 == [w EXCEPT !.m_clusters =
                                Append(w.m_clusters, createCluster(w, clusterIndices))]
                     w2 == [w1 EXCEPT !.m_earthquakes =
                                [k \in DOMAIN w1.m_earthquakes |->
                                   IF k \in members
                                   THEN [w1.m_earthquakes[k] EXCEPT
                                           !.clusterId = Len(w1.m_clusters) - 1]
                                   ELSE w1.m_earthquakes[k]]]
                 IN clusterLoop(w2, i + 1, clustered \cup members)
            ELSE clusterLoop(w, i + 1, clustered \cup members)

updateClusters(w) ==
    IF ~w.m_settings.enableClustering
    THEN clearClusters(enterRecompute(w))
    ELSE LET w1 == lock(enterRecompute(w), "updateClusters")
             w2 == clearClusters(w1)
         IN unlock(clusterLoop(w2, 1, {}))

\* the positions (1-based) that the loop over cluster.earthquakeIds
\* touches: eqId >= 0 && eqId < m_earthquakes.size()
touched(w, cluster) ==
    {cluster.earthquakeIds[k] + 1 : k \in DOMAIN cluster.earthquakeIds}
        \cap DOMAIN w.m_earthquakes

\* expandCluster that also resets the clusterId of the other markers
expandClusterAll(w, clusterId) ==
    IF clusterId < 0 \/ clusterId >= Len(w.m_clusters) THEN w
    ELSE IF w.m_clusters[clusterId + 1].isExpanded THEN w
    ELSE LET w1 == lock([w EXCEPT !.m_clusters[clusterId + 1].isExpanded = TRUE],
                        "expandCluster")
         IN unlock([w1 EXCEPT
                !.m_earthquakes =
                    [i \in DOMAIN w1.m_earthquakes |->
                        [w1.m_earthquakes[i] EXCEPT !.clusterId = 0 - 1]],
                !.pendingSingleShots = w1.pendingSingleShots + 1])

\* clusterId is 0-based
expandCluster(w, clusterId) ==
    IF clusterId < 0 \/ clusterId >= Len(w.m_clusters) THEN w
    ELSE IF w.m_clusters[clusterId + 1].isExpanded THEN w
    ELSE LET w1 == lock([w EXCEPT !.m_clusters[clusterId + 1].isExpanded = TRUE],
                        "expandCluster")
             ids == touched(w1, w1.m_clusters[clusterId + 1])
         IN unlock([w1 EXCEPT
                !.m_earthquakes =
                    [i \in DOMAIN w1.m_earthquakes |->
                        IF i \in ids
                        THEN [w1.m_earthquakes[i] EXCEPT !.clusterId = 0 - 1]
                        ELSE w1.m_earthquakes[i]],
                !.pendingSingleShots = w1.pendingSingleShots + 1])

\* the lambda that expandCluster hands to QTimer::singleShot
expandTimeout(w) ==
    updateClusters([w EXCEPT !.pendingSingleShots = w.pendingSingleShots - 1])

\* collapseCluster that assigns the cluster to every marker
collapseClusterAll(w, clusterId) ==
    IF clusterId < 0 \/ clusterId >= Len(w.m_clusters) THEN w
    ELSE LET w1 == lock([w EXCEPT !.m_clusters[clusterId + 1].isExpanded = FALSE],
                        "collapseCluster")
         IN unlock([w1 EXCEPT
                !.m_earthquakes =
                    [i \in DOMAIN w1.m_earthquakes |->
                        [w1.m_earthquakes[i] EXCEPT !.clusterId = clusterId]]])

collapseCluster(w, clusterId) ==
    IF clusterId < 0 \/ clusterId >= Len(w.m_clusters) THEN w
    ELSE LET w1 == lock([w EXCEPT !.m_clusters[clusterId + 1].isExpanded = FALSE],
                        "collapseCluster")
             ids == touched(w1, w1.m_clusters[clusterId + 1])
         IN unlock([w1 EXCEPT
                !.m_earthquakes =
                    [i \in DOMAIN w1.m_earthquakes |->
                        IF i \in ids
                        THEN [w1.m_earthquakes[i] EXCEPT !.clusterId = clusterId]
                        ELSE w1.m_earthquakes[i]]])

----------------------------------------------------------------------------
(* Record collection: the routines *)

\* addEarthquake without the search for an existing entry
addEarthquakeAppends(w, earthquake) ==
    LET w1 == lock(w, "addEarthquake")
    IN unlock([w1 EXCEPT !.m_earthquakes =
                  Append(w1.m_earthquakes, newVisualEarthquake(w1, earthquake))])

addEarthquake(w, earthquake) ==
    LET w1 == lock(w, "addEarthquake")
        i == indexOfId(w1.m_earthquakes, earthquake.eventId)
    IN IF i # 0
       THEN unlock(updateVisibleEarthquakes(
                [w1 EXCEPT !.m_earthquakes[i].data = earthquake]))
       ELSE unlock([w1 EXCEPT !.m_earthquakes =
                       Append(w1.m_earthquakes, newVisualEarthquake(w1, earthquake))])

RECURSIVE addLoop(_, _)
\* the for loop of addEarthquakes over the batch
addLoop(w, earthquakes) ==
    IF earthquakes = <<>> THEN w
    ELSE LET earthquake == Head(earthquakes)
             i == indexOfId(w.m_earthquakes, earthquake.eventId)
         IN addLoop(IF i # 0
                    THEN [w EXCEPT !.m_earthquakes[i].data = earthquake]
                    ELSE [w EXCEPT !.m_earthquakes =
                            Append(w.m_earthquakes, newVisualEarthquake(w, earthquake))],
                    Tail(earthquakes))

addEarthquakes(w, earthquakes) ==
    LET w1 == addLoop(lock(w, "addEarthquakes"), earthquakes)
        w2 == updateVisibleEarthquakes(w1)
        w3 == IF w2.m_settings.enableClustering THEN updateClusters(w2) ELSE w2
    IN unlock(w3)

\* QVector::removeAt(i - 1)
removeAt(seq, i) == SubSeq(seq, 1, i - 1) \o SubSeq(seq, i + 1, Len(seq))

\* QStringList::removeAll
removeAll(seq, v) == SelectSeq(seq, LAMBDA x : x # v)

removeEarthquake(w, eventId) ==
    LET w1 == lock(w, "removeEarthquake")
        i == indexOfId(w1.m_earthquakes, eventId)
        w2 == IF i # 0
              THEN [w1 EXCEPT !.m_earthquakes = removeAt(w1.m_earthquakes, i)]
              ELSE w1
    IN unlock([w2 EXCEPT !.m_selectedIds = removeAll(w2.m_selectedIds, eventId)])

clearEarthquakes(w) ==
    LET w1 == lock(w, "clearEarthquakes")
        w2 == [w1 EXCEPT !.m_earthquakes = <<>>, !.m_selectedIds = <<>>]
    IN unlock(clearClusters(w2))

updateEarthquake(w, earthquake) ==
    LET w1 == lock(w, "updateEarthquake")
        i == indexOfId(w1.m_earthquakes, earthquake.eventId)
    IN IF i # 0
       THEN unlock([w1 EXCEPT !.m_earthquakes[i] =
                      [w1.m_earthquakes[i] EXCEPT
                          !.data = earthquake,
                          !.displaySize = getEarthquakeSize(earthquake),
                          !.isVisible = isEarthquakeVisible(w1, earthquake)]])
       ELSE unlock(w1)

----------------------------------------------------------------------------
(* Selection: the routines *)

\* emit
emit(w, signal) == [w EXCEPT !.emitted = Append(w.emitted, signal)]

\* getSelectedEarthquakes only reads, under its own locker
getSelectedEarthquakes(w) == unlock(lock(w, "getSelectedEarthquakes"))

RECURSIVE selectLoop(_, _)
\* the for loop of selectEarthquakes over the ids
selectLoop(w, eventIds) ==
    IF eventIds = <<>> THEN w
    ELSE LET id == Head(eventIds)
             i == indexOfId(w.m_earthquakes, id)
             w1 == IF \E k \in DOMAIN w.m_selectedIds : w.m_selectedIds[k] = id
                   THEN w
                   ELSE [w EXCEPT !.m_selectedIds = Append(w.m_selectedIds, id)]
         IN selectLoop(IF i # 0
                       THEN [w1 EXCEPT !.m_earthquakes[i].isSelected = TRUE]
                       ELSE w1,
                       Tail(eventIds))

selectEarthquakes(w, eventIds) ==
    LET w1 == selectLoop(lock(w, "selectEarthquakes"), eventIds)
    IN unlock(emit(getSelectedEarthquakes(w1), "selectionChanged"))

clearSelection(w) ==
    IF w.m_selectedIds = <<>> THEN w
    ELSE LET w1 == lock(w, "clearSelection")
         IN unlock(emit([w1 EXCEPT
                      !.m_earthquakes =
                          [i \in DOMAIN w1.m_earthquakes |->
                              [w1.m_earthquakes[i] EXCEPT !.isSelected = FALSE]],
                      !.m_selectedIds = <<>>], "selectionChanged"))

selectEarthquake(w, eventId) == selectEarthquakes(clearSelection(w), <<eventId>>)

----------------------------------------------------------------------------
(* Viewport and settings: the routines *)

\* setCenter without the test for a change
setCenterAlways(w, latitude, longitude) ==
    LET w1 == [w EXCEPT !.m_centerLatitude = qBound(-9000, latitude, 9000),
                        !.m_centerLongitude = normalizeLongitude(longitude)]
        w2 == updateVisibleEarthquakes(updateVisibleBounds(w1))
    IN emit(emit([w2 EXCEPT !.m_backgroundCacheValid = FALSE],
                 "centerChanged"), "boundsChanged")

setCenter(w, latitude, longitude) ==
    LET newLat == qBound(-9000, latitude, 9000)
        newLon == normalizeLongitude(longitude)
        changed == w.m_centerLatitude # newLat \/ w.m_centerLongitude # newLon
        w1 == [w EXCEPT !.m_centerLatitude = newLat, !.m_centerLongitude = newLon]
        w2 == updateVisibleEarthquakes(updateVisibleBounds(w1))
    IN IF changed
       THEN emit(emit([w2 EXCEPT !.m_backgroundCacheValid = FALSE],
                      "centerChanged"), "boundsChanged")
       ELSE w

setZoomLevel(w, zoom) ==
    LET newZoom == qBound(MIN_ZOOM, zoom, MAX_ZOOM)
        w1 == updateVisibleEarthquakes(
                  updateVisibleBounds([w EXCEPT !.m_zoomLevel = newZoom]))
    IN IF w.m_zoomLevel # newZoom
       THEN emit(emit([w1 EXCEPT !.m_backgroundCacheValid = FALSE],
                      "zoomChanged"), "boundsChanged")
       ELSE w

zoomIn(w) ==
    setZoomLevel(w, qBound(MIN_ZOOM,
                           (w.m_zoomLevel * ZOOM_FACTOR_NUM) \div ZOOM_FACTOR_DEN,
                           MAX_ZOOM))

zoomOut(w) ==
    setZoomLevel(w, qBound(MIN_ZOOM,
                           (w.m_zoomLevel * ZOOM_FACTOR_DEN) \div ZOOM_FACTOR_NUM,
                           MAX_ZOOM))

\* point in pixels (QPoint); up is angleDelta().y() > 0.
\* offset *= (1.0 - 1.0 / zoomFactor): a third of the offset for
\* zoomFactor = ZOOM_FACTOR, minus a half of it for 1.0 / ZOOM_FACTOR
wheelEvent(w, point, up) ==
    LET mouseLatLon == screenToLatLon(w, 100 * point[1], 100 * point[2])
        scaled == IF up THEN (w.m_zoomLevel * ZOOM_FACTOR_NUM) \div ZOOM_FACTOR_DEN
                        ELSE (w.m_zoomLevel * ZOOM_FACTOR_DEN) \div ZOOM_FACTOR_NUM
        newZoom == qBound(MIN_ZOOM, scaled, MAX_ZOOM)
        offset == [x |-> mouseLatLon.x - w.m_centerLongitude,
                   y |-> mouseLatLon.y - w.m_centerLatitude]
        part(d) == IF up
                   THEN (d * (ZOOM_FACTOR_NUM - ZOOM_FACTOR_DEN)) \div ZOOM_FACTOR_NUM
                   ELSE (d * (ZOOM_FACTOR_DEN - ZOOM_FACTOR_NUM)) \div ZOOM_FACTOR_DEN
        newCenter == [x |-> w.m_centerLongitude + part(offset.x),
                      y |-> w.m_centerLatitude + part(offset.y)]
    IN IF newZoom # w.m_zoomLevel
       THEN setZoomLevel(setCenter(w, newCenter.y, newCenter.x), newZoom)
       ELSE w

\* Qt has set the new geometry when resizeEvent runs
resizeEvent(w, size) ==
    LET w1 == updateVisibleEarthquakes(
                  updateVisibleBounds([w EXCEPT !.width = size[1], !.height = size[2]]))
    IN [w1 EXCEPT !.m_backgroundCacheValid = FALSE]

\* paintEvent renders the background into its cache if the cache is not valid
paintEvent(w) == [w EXCEPT !.m_backgroundCacheValid = TRUE]

setProjection(w, projection) ==
    updateVisibleEarthquakes([w EXCEPT !.m_settings.projection = projection])

setMagnitudeFilter(w, minMag, maxMag) ==
    updateVisibleEarthquakes([w EXCEPT !.m_minMagnitude = minMag,
                                       !.m_maxMagnitude = maxMag])

setDepthFilter(w, minDepth, maxDepth) ==
    updateVisibleEarthquakes([w EXCEPT !.m_minDepth = minDepth,
                                       !.m_maxDepth = maxDepth])

setTimeFilter(w, startTime, endTime) ==
    updateVisibleEarthquakes([w EXCEPT !.m_startTime = startTime,
                                       !.m_endTime = endTime])

setLocationFilter(w, bounds) ==
    updateVisibleEarthquakes([w EXCEPT !.m_locationFilter = bounds,
                                       !.m_hasLocationFilter = isValid(bounds)])

enableClustering(w, enabled) ==
    LET w1 == [w EXCEPT !.m_settings.enableClustering = enabled]
    IN IF enabled THEN updateClusters(w1) ELSE clearClusters(w1)

setClusterDistance(w, pixels) ==
    LET w1 == [w EXCEPT !.m_settings.clusterDistance = qMax(1000, pixels)]
    IN IF w1.m_settings.enableClustering THEN updateClusters(w1) ELSE w1

----------------------------------------------------------------------------
(* Hit testing *)

\* distanceToEarthquake that measures along x only
distanceAlongX(w, point, earthquakeIndex, t) ==
    IF earthquakeIndex < 0 \/ earthquakeIndex >= Len(w.m_earthquakes) THEN DBL_MAX
    ELSE LET eqPos == w.m_earthquakes[earthquakeIndex + 1].screenPos
             dx == 100 * point[1] - eqPos.x
         IN IF Abs(dx) > t THEN DBL_MAX ELSE dx * dx

\* squared distance of a point (whole pixels) to a marker, for a point
\* within reach t of it; DBL_MAX stands for every distance beyond t
distanceToEarthquake(w, point, earthquakeIndex, t) ==
    IF earthquakeIndex < 0 \/ earthquakeIndex >= Len(w.m_earthquakes) THEN DBL_MAX
    ELSE LET eqPos == w.m_earthquakes[earthquakeIndex + 1].screenPos
             dx == 100 * point[1] - eqPos.x
             dy == 100 * point[2] - eqPos.y
         IN IF Abs(dx) > t \/ Abs(dy) > t THEN DBL_MAX ELSE dx * dx + dy * dy

RECURSIVE findLoop(_, _, _, _, _)
\* the loop of findEarthquakeAt from index i (0-based) on
findLoop(w, point, i, minDistance, closestIndex) ==
    IF i >= Len(w.m_earthquakes) THEN closestIndex
    ELSE IF ~w.m_earthquakes[i + 1].isVisible
    THEN findLoop(w, point, i + 1, minDistance, closestIndex)
    ELSE LET threshold == getScaledSize(w, w.m_earthquakes[i + 1].displaySize) \div 2 + 500
             distance == distanceToEarthquake(w, point, i, threshold)
         IN IF distance <= threshold * threshold /\ distance < minDistance
            THEN findLoop(w, point, i + 1, distance, i)
            ELSE findLoop(w, point, i + 1, minDistance, closestIndex)

findEarthquakeAt(w, point) == findLoop(w, point, 0, DBL_MAX, 0 - 1)

\* QRect::contains on a normalized rectangle <<left, top, right, bottom>>
rectContains(rect, p) ==
    /\ rect[1] <= p[1] /\ p[1] <= rect[3]
    /\ rect[2] <= p[2] /\ p[2] <= rect[4]

findEarthquakesInRect(w, rect) ==
    LET inside == {i \in 0..(Len(w.m_earthquakes) - 1) :
                     /\ w.m_earthquakes[i + 1].isVisible
                     /\ rectContains(rect,
                           <<toPoint(w.m_earthquakes[i + 1].screenPos.x),
                             toPoint(w.m_earthquakes[i + 1].screenPos.y)>>)}
    IN SortedSeq(inside)

----------------------------------------------------------------------------
(* GeoJsonParser::parseCoordinate.  A QString is a sequence of characters; *)
(* the numbers here are whole degrees.                                     *)

Digits == {"1", "9"}

RECURSIVE splitLoop(_, _, _)
\* the parts found so far, and the part being read
splitLoop(rest, part, parts) ==
    LET closed == IF part = <<>> THEN parts ELSE Append(parts, part)
    IN IF rest = <<>> THEN closed
       ELSE IF Head(rest) = "," THEN splitLoop(Tail(rest), <<>>, closed)
       ELSE splitLoop(Tail(rest), Append(part, Head(rest)), parts)

\* QString::split(',', Qt::SkipEmptyParts)
split(input) == splitLoop(input, <<>>, <<>>)

RECURSIVE trimmed(_)
\* QString::trimmed
trimmed(str) ==
    IF str = <<>> THEN str
    ELSE IF Head(str) = " " THEN trimmed(Tail(str))
    ELSE IF str[Len(str)] = " " THEN trimmed(SubSeq(str, 1, Len(str) - 1))
    ELSE str

RECURSIVE decimal(_)
decimal(str) ==
    IF str = <<>> THEN 0
    ELSE 10 * decimal(SubSeq(str, 1, Len(str) - 1))
            + (IF str[Len(str)] = "1" THEN 1 ELSE 9)

\* QString::toDouble(&ok): ok is false and the value 0 unless the whole
\* string is a number
toDouble(str) ==
    IF str # <<>> /\ \A i \in DOMAIN str : str[i] \in Digits
    THEN [ok |-> TRUE, value |-> decimal(str)]
    ELSE [ok |-> FALSE, value |-> 0]

\* QGeoCoordinate(): no value set
InvalidCoordinate == [valid |-> FALSE]

\* QGeoCoordinate(latitude, longitude[, altitude]): no value is set unless
\* the latitude is in [-90, 90] and the longitude in [-180, 180]
QGeoCoordinate(latitude, longitude, altitude) ==
    IF latitude >= -90 /\ latitude <= 90 /\ longitude >= -180 /\ longitude <= 180
    THEN [valid |-> TRUE, latitude |-> latitude, longitude |-> longitude,
          altitude |-> altitude]
    ELSE InvalidCoordinate

\* a QGeoCoordinate without altitude
NoAltitude == "none"

parseCoordinate(input) ==
    LET parts == split(input)
    IN IF Len(parts) < 2 THEN InvalidCoordinate
       ELSE LET lat == toDouble(trimmed(parts[1]))
                lon == toDouble(trimmed(parts[2]))
            IN IF ~lat.ok \/ ~lon.ok THEN InvalidCoordinate
               ELSE IF Len(parts) = 3
               THEN LET alt == toDouble(trimmed(parts[3]))
                    IN IF alt.ok THEN QGeoCoordinate(lat.value, lon.value, alt.value)
                       ELSE QGeoCoordinate(lat.value, lon.value, NoAltitude)
               ELSE QGeoCoordinate(lat.value, lon.value, NoAltitude)

----------------------------------------------------------------------------
(* Rendering and level of detail.  m_lodThreshold is in the zoom unit.     *)

\* rect().adjusted(-margin, -margin, margin, margin).contains(pos.toPoint())
inRectWithMargin(w, pos, margin) ==
    rectContains(<<0 - margin, 0 - margin, w.width - 1 + margin, w.height - 1 + margin>>,
                 <<toPoint(pos.x), toPoint(pos.y)>>)

isInViewport(w, screenPos) == inRectWithMargin(w, screenPos, 0)

shouldSkipRendering(w, eq) ==
    IF ~inRectWithMargin(w, eq.screenPos, 100) THEN TRUE
    ELSE IF w.m_zoomLevel < w.m_lodThreshold /\ eq.data.magnitude < 3 THEN TRUE
    ELSE FALSE

RECURSIVE firstBySize(_, _, _)
\* the first count of the positions in ascending displaySize (std::sort);
\* among equal sizes the lower position is taken first
firstBySize(w, positions, count) ==
    IF count = 0 \/ positions = {} THEN {}
    ELSE LET i == CHOOSE a \in positions :
                     \A b \in positions :
                         \/ w.m_earthquakes[a].displaySize < w.m_earthquakes[b].displaySize
                         \/ /\ w.m_earthquakes[a].displaySize = w.m_earthquakes[b].displaySize
                            /\ a <= b
         IN {i} \cup firstBySize(w, positions \ {i}, count - 1)

\* the number of markers that renderEarthquakes draws one by one
renderEarthquakes(w) ==
    LET indices == {i \in DOMAIN w.m_earthquakes :
                      /\ w.m_earthquakes[i].isVisible
                      /\ ~shouldSkipRendering(w, w.m_earthquakes[i])}
        maxRender == qMin(Cardinality(indices), w.m_maxRenderingEarthquakes)
        rendered == IF maxRender = Cardinality(indices) THEN indices
                    ELSE firstBySize(w, indices, maxRender)
    IN Cardinality({i \in rendered : isInViewport(w, w.m_earthquakes[i].screenPos)})

\* zoom 0.5 is 10 and zoom 1.0 is 20 in the zoom unit, the thresholds 1.0,
\* 0.5 and 0.1 are 20, 10 and 2
updateLevelOfDetail(w) ==
    LET visibleCount == Cardinality({i \in DOMAIN w.m_earthquakes :
                                       w.m_earthquakes[i].isVisible})
    IN IF w.m_zoomLevel < 10 \/ visibleCount > 1000
       THEN [w EXCEPT !.m_maxRenderingEarthquakes = 500, !.m_lodThreshold = 20]
       ELSE IF w.m_zoomLevel < 20 \/ visibleCount > 500
       THEN [w EXCEPT !.m_maxRenderingEarthquakes = 1000, !.m_lodThreshold = 10]
       ELSE [w EXCEPT !.m_maxRenderingEarthquakes = 10000, !.m_lodThreshold = 2]

----------------------------------------------------------------------------
(* Animation.  Timestamps and the clock are in hours; now is what           *)
(* QDateTime::currentDateTimeUtc() returns when the handler runs.           *)

calculateAnimationPhase(w, earthquake, now) ==
    LET ageHours == now - earthquake.timestamp
    IN IF ageHours < 1 THEN FastPulse(w.m_animationFrame)
       ELSE IF ageHours < 24 THEN SlowPulse(w.m_animationFrame)
       ELSE ConstantPhase(100)

updateEarthquakeAnimations(w, now) ==
    LET w1 == lock(w, "updateEarthquakeAnimations")
    IN unlock([w1 EXCEPT !.m_earthquakes =
                  [i \in DOMAIN w1.m_earthquakes |->
                      [w1.m_earthquakes[i] EXCEPT !.animationPhase =
                          calculateAnimationPhase(w1, w1.m_earthquakes[i].data, now)]]])

updateAnimation(w, now) ==
    IF ~w.m_animationEnabled THEN w
    ELSE LET w1 == [w EXCEPT !.m_animationFrame =
                        (w.m_animationFrame + 1) % (ANIMATION_FPS * 6)]
         IN emit(updateEarthquakeAnimations(w1, now), "animationFrameUpdated")

startAnimation(w) ==
    [w EXCEPT !.m_animationEnabled = TRUE, !.animationTimerActive = TRUE]

stopAnimation(w) ==
    [w EXCEPT !.m_animationEnabled = FALSE, !.animationTimerActive = FALSE]

----------------------------------------------------------------------------
(* Flashing.  flashTimers holds, for every QTimer that flashEarthquake has  *)
(* created, what its lambda has captured; a stopped timer stays in the     *)
(* list with active = FALSE.                                                *)

flashEarthquake(w, eventId, times) ==
    [w EXCEPT !.flashTimers =
        Append(w.flashTimers,
               [eventId |-> eventId, times |-> times, flashCount |-> 0,
                maxFlashes |-> times * 2, active |-> TRUE])]

\* the lambda connected to the timeout of the k-th flash timer
flashTimeout(w, k) ==
    LET timer == w.flashTimers[k]
        highlight == timer.flashCount % 2 = 0
        w1 == lock(w, "flashEarthquake")
        i == indexOfId(w1.m_earthquakes, timer.eventId)
        w2 == IF i # 0 THEN [w1 EXCEPT !.m_earthquakes[i].isHighlighted = highlight]
              ELSE w1
        flashCount == timer.flashCount + 1
    IN unlock([w2 EXCEPT !.flashTimers[k].flashCount = flashCount,
                         !.flashTimers[k].active = ~(flashCount >= timer.maxFlashes)])

----------------------------------------------------------------------------
(* Mouse: the routines.  mousePressEvent for the left button without the   *)
(* control key; shift is event->modifiers() & Qt::ShiftModifier.           *)

\* EarthquakeData(): the default-constructed record
EmptyEarthquakeData ==
    [eventId |-> 0, latitude |-> 0, longitude |-> 0, magnitude |-> 0,
     depth |-> 0, timestamp |-> NoTime]

\* mousePressOnEarthquake that flags the marker and leaves the id list alone
mousePressUnlisted(w, earthquakeIndex, shift) ==
    LET w1 == IF shift THEN w ELSE clearSelection(w)
        w2 == [w1 EXCEPT !.m_earthquakes[earthquakeIndex + 1].isSelected = TRUE]
    IN emit(getSelectedEarthquakes(emit(w2, "earthquakeClicked")), "selectionChanged")

\* the branch earthquakeIndex >= 0 of mousePressEvent; earthquakeIndex is
\* 0-based and in range
mousePressOnEarthquake(w, earthquakeIndex, shift) ==
    LET eventId == w.m_earthquakes[earthquakeIndex + 1].data.eventId
        listed == \E k \in DOMAIN w.m_selectedIds : w.m_selectedIds[k] = eventId
        w1 == IF shift THEN w ELSE clearSelection(w)
        w2 == IF shift /\ listed THEN w1
              ELSE [w1 EXCEPT !.m_selectedIds = Append(w1.m_selectedIds, eventId),
                              !.m_earthquakes[earthquakeIndex + 1].isSelected = TRUE]
    IN emit(getSelectedEarthquakes(emit(w2, "earthquakeClicked")), "selectionChanged")

\* the branch earthquakeIndex < 0: panning starts
mousePressOnMap(w, shift) ==
    LET w1 == [w EXCEPT !.m_isPanning = TRUE]
    IN emit(IF shift THEN w1 ELSE clearSelection(w1), "mapClicked")

mousePressEvent(w, point, shift) ==
    LET earthquakeIndex == findEarthquakeAt(w, point)
        w1 == unlock(lock(w, "findEarthquakeAt"))
    IN IF earthquakeIndex >= 0
       THEN mousePressOnEarthquake(w1, earthquakeIndex, shift)
       ELSE mousePressOnMap(w1, shift)

\* the branch of mousePressEvent with the Control modifier: the rubber band
\* starts as the empty rectangle QRect(m_selectionStart, QSize())
mousePressControl(w, point) ==
    [w EXCEPT !.m_isSelecting = TRUE,
              !.m_selectionStart = point,
              !.selectionBand = <<point[1], point[2], point[1] - 1, point[2] - 1>>]

\* QRect(topLeft, bottomRight).normalized()
normalized(rect) ==
    <<IF rect[3] < rect[1] - 1 THEN rect[3] ELSE rect[1],
      IF rect[4] < rect[2] - 1 THEN rect[4] ELSE rect[2],
      IF rect[3] < rect[1] - 1 THEN rect[1] ELSE rect[3],
      IF rect[4] < rect[2] - 1 THEN rect[2] ELSE rect[4]>>

\* the branch of mouseMoveEvent that drags the rubber band
mouseMoveSelecting(w, point) ==
    [w EXCEPT !.selectionBand =
        normalized(<<w.m_selectionStart[1], w.m_selectionStart[2], point[1], point[2]>>)]

RECURSIVE bandLoop(_, _)
\* the for loop of mouseReleaseEvent over the indices in the rubber band
bandLoop(w, selectedIndices) ==
    IF selectedIndices = <<>> THEN w
    ELSE LET index == Head(selectedIndices)
             eventId == w.m_earthquakes[index + 1].data.eventId
             listed == \E k \in DOMAIN w.m_selectedIds : w.m_selectedIds[k] = eventId
         IN bandLoop(IF listed THEN w
                     ELSE [w EXCEPT !.m_selectedIds = Append(w.m_selectedIds, eventId),
                                    !.m_earthquakes[index + 1].isSelected = TRUE],
                     Tail(selectedIndices))

\* mouseReleaseEvent of the left button
mouseReleaseEvent(w, shift) ==
    IF w.m_isPanning THEN [w EXCEPT !.m_isPanning = FALSE]
    ELSE IF w.m_isSelecting
    THEN LET w1 == [w EXCEPT !.m_isSelecting = FALSE]
             selectedIndices == findEarthquakesInRect(w1, w1.selectionBand)
             w2 == unlock(lock(w1, "findEarthquakesInRect"))
             w3 == bandLoop(IF shift THEN w2 ELSE clearSelection(w2), selectedIndices)
         IN IF selectedIndices # <<>>
            THEN emit(getSelectedEarthquakes(w3), "selectionChanged")
            ELSE w3
    ELSE w

----------------------------------------------------------------------------
(* Construction *)

\* what QSettings holds when nothing was ever saved
NoStoredSettings ==
    [centerLatitude |-> 0, centerLongitude |-> 0, zoomLevel |-> 20,
     projection |-> Mercator, enableClustering |-> TRUE,
     animationEnabled |-> TRUE]

loadSettings(w, stored) ==
    updateVisibleBounds(
        [w EXCEPT !.m_centerLatitude = stored.centerLatitude,
                  !.m_centerLongitude = stored.centerLongitude,
                  !.m_zoomLevel = stored.zoomLevel,
                  !.m_animationEnabled = stored.animationEnabled,
                  !.m_settings = [w.m_settings EXCEPT
                                     !.projection = stored.projection,
                                     !.enableClustering = stored.enableClustering]])

\* member initialisers of the constructor, then initializeWidget and
\* loadSettings; size is the geometry the shell gives the widget, stored
\* what QSettings holds, zeroDivide what the build makes of x / 0.0
constructedWith(stored, size, zeroDivide) ==
    loadSettings(
        updateVisibleBounds(
            [m_earthquakes |-> <<>>,
             m_clusters |-> <<>>,
             m_selectedIds |-> <<>>,
             m_dataMutex |-> FreeMutex,
             m_centerLatitude |-> 0,
             m_centerLongitude |-> 0,
             m_zoomLevel |-> 20,
             m_settings |-> [projection |-> Mercator,
                             enableClustering |-> TRUE,
                             clusterDistance |-> 5000],
             m_visibleBounds |-> [minLatitude |-> 0, maxLatitude |-> 0,
                                  minLongitude |-> 0, maxLongitude |-> 0],
             m_minMagnitude |-> 0,
             m_maxMagnitude |-> 10,
             m_minDepth |-> 0,
             m_maxDepth |-> 1000,
             m_startTime |-> NoTime,
             m_endTime |-> NoTime,
             m_locationFilter |-> [minLatitude |-> 0, maxLatitude |-> 0,
                                   minLongitude |-> 0, maxLongitude |-> 0],
             m_hasLocationFilter |-> FALSE,
             m_backgroundCacheValid |-> FALSE,
             emitted |-> <<>>,
             pendingSingleShots |-> 0,
             flashTimers |-> <<>>,
             m_isPanning |-> FALSE,
             m_isSelecting |-> FALSE,
             m_selectionStart |-> <<0, 0>>,
             selectionBand |-> <<0, 0, 0 - 1, 0 - 1>>,
             m_animationEnabled |-> TRUE,
             m_animationFrame |-> 0,
             animationTimerActive |-> TRUE,
             m_maxRenderingEarthquakes |-> 10000,
             m_lodThreshold |-> 10,
             zeroDivide |-> zeroDivide,
             dividedByZero |-> FALSE,
             hung |-> FALSE,
             width |-> size[1],
             height |-> size[2]]),
        stored)

\* construction with no stored settings
constructed(size) == constructedWith(NoStoredSettings, size, "inf")

\* hit is what the handler that ran last returned; NoHit if it returns nothing
NoHit == [kind |-> "none"]

Init ==
    /\ widget = constructed(<<800, 600>>)
    /\ lastOp = "constructor"
    /\ hit = NoHit

----------------------------------------------------------------------------
(* Handlers as actions *)

\* a handler starts with the mutex free and nothing emitted
begin ==
    [widget EXCEPT !.m_dataMutex = FreeMutex, !.emitted = <<>>,
                   !.dividedByZero = FALSE]

AddEarthquake(earthquake) ==
    /\ Len(widget.m_earthquakes) <= MaxMarkers
    /\ widget' = addEarthquake(begin, earthquake)
    /\ lastOp' = "addEarthquake"
    /\ hit' = NoHit

\* addEarthquake for the records of a bulk load
LoadEarthquake(earthquake) ==
    /\ Len(widget.m_earthquakes) < MaxBulk
    /\ widget' = addEarthquake(begin, earthquake)
    /\ lastOp' = "addEarthquake"
    /\ hit' = NoHit

AddEarthquakes(earthquakes) ==
    /\ Len(widget.m_earthquakes) <= MaxMarkers
    /\ widget' = addEarthquakes(begin, earthquakes)
    /\ lastOp' = "addEarthquakes"
    /\ hit' = NoHit

RemoveEarthquake(eventId) ==
    /\ widget' = removeEarthquake(begin, eventId)
    /\ lastOp' = "removeEarthquake"
    /\ hit' = NoHit

ClearEarthquakes ==
    /\ widget' = clearEarthquakes(begin)
    /\ lastOp' = "clearEarthquakes"
    /\ hit' = NoHit

UpdateEarthquake(earthquake) ==
    /\ widget' = updateEarthquake(begin, earthquake)
    /\ lastOp' = "updateEarthquake"
    /\ hit' = NoHit

SetCenter(latitude, longitude) ==
    /\ widget' = setCenter(begin, latitude, longitude)
    /\ lastOp' = "setCenter"
    /\ hit' = NoHit

SetZoomLevel(zoom) ==
    /\ widget' = setZoomLevel(begin, zoom)
    /\ lastOp' = "setZoomLevel"
    /\ hit' = NoHit

ResizeEvent(size) ==
    /\ size # <<widget.width, widget.height>>
    /\ widget' = resizeEvent(begin, size)
    /\ lastOp' = "resizeEvent"
    /\ hit' = NoHit

SetProjection(projection) ==
    /\ widget' = setProjection(begin, projection)
    /\ lastOp' = "setProjection"
    /\ hit' = NoHit

SetMagnitudeFilter(minMag, maxMag) ==
    /\ widget' = setMagnitudeFilter(begin, minMag, maxMag)
    /\ lastOp' = "setMagnitudeFilter"
    /\ hit' = NoHit

SetDepthFilter(minDepth, maxDepth) ==
    /\ widget' = setDepthFilter(begin, minDepth, maxDepth)
    /\ lastOp' = "setDepthFilter"
    /\ hit' = NoHit

SetTimeFilter(startTime, endTime) ==
    /\ widget' = setTimeFilter(begin, startTime, endTime)
    /\ lastOp' = "setTimeFilter"
    /\ hit' = NoHit

SetLocationFilter(bounds) ==
    /\ widget' = setLocationFilter(begin, bounds)
    /\ lastOp' = "setLocationFilter"
    /\ hit' = NoHit

EnableClustering(enabled) ==
    /\ widget' = enableClustering(begin, enabled)
    /\ lastOp' = "enableClustering"
    /\ hit' = NoHit

SetClusterDistance(pixels) ==
    /\ widget' = setClusterDistance(begin, pixels)
    /\ lastOp' = "setClusterDistance"
    /\ hit' = NoHit

\* at most MaxTimers single-shot timers are pending
ExpandCluster(clusterId) ==
    /\ widget.pendingSingleShots < MaxTimers
    /\ widget' = expandCluster(begin, clusterId)
    /\ lastOp' = "expandCluster"
    /\ hit' = NoHit

\* a single-shot timer of expandCluster fires
ExpandTimeout ==
    /\ widget.pendingSingleShots > 0
    /\ widget' = expandTimeout(begin)
    /\ lastOp' = "expandTimeout"
    /\ hit' = NoHit

CollapseCluster(clusterId) ==
    /\ widget' = collapseCluster(begin, clusterId)
    /\ lastOp' = "collapseCluster"
    /\ hit' = NoHit

SelectEarthquake(eventId) ==
    /\ widget' = selectEarthquake(begin, eventId)
    /\ lastOp' = "selectEarthquake"
    /\ hit' = NoHit

SelectEarthquakes(eventIds) ==
    /\ widget' = selectEarthquakes(begin, eventIds)
    /\ lastOp' = "selectEarthquakes"
    /\ hit' = NoHit

ClearSelection ==
    /\ widget' = clearSelection(begin)
    /\ lastOp' = "clearSelection"
    /\ hit' = NoHit

ZoomIn ==
    /\ widget' = zoomIn(begin)
    /\ lastOp' = "zoomIn"
    /\ hit' = NoHit

ZoomOut ==
    /\ widget' = zoomOut(begin)
    /\ lastOp' = "zoomOut"
    /\ hit' = NoHit

WheelEvent(point, up) ==
    /\ widget' = wheelEvent(begin, point, up)
    /\ lastOp' = "wheelEvent"
    /\ hit' = NoHit

ProjectCoordinate(latitude, longitude) ==
    /\ widget' = begin
    /\ hit' = [kind |-> "projected", latitude |-> latitude, longitude |-> longitude,
               point |-> projectCoordinate(widget, latitude, longitude)]
    /\ lastOp' = "projectCoordinate"

\* the point that projectCoordinate has just returned is taken back
UnprojectCoordinate ==
    /\ hit.kind = "projected"
    /\ widget' = begin
    /\ hit' = [kind |-> "unprojected", latitude |-> hit.latitude,
               longitude |-> hit.longitude,
               point |-> unprojectCoordinate(widget, hit.point)]
    /\ lastOp' = "unprojectCoordinate"

\* the static function is applied to the input at hand
ParseCoordinate ==
    /\ hit.kind = "input"
    /\ widget' = widget
    /\ hit' = [kind |-> "coordinate", input |-> hit.input,
               result |-> parseCoordinate(hit.input)]
    /\ lastOp' = "parseCoordinate"

MousePressEvent(point, shift) ==
    /\ widget' = mousePressEvent(begin, point, shift)
    /\ lastOp' = "mousePressEvent"
    /\ hit' = NoHit

MousePressControl(point) ==
    /\ widget' = mousePressControl(begin, point)
    /\ lastOp' = "mousePressEvent"
    /\ hit' = NoHit

\* a move with the left button down while the rubber band is dragged
MouseMoveSelecting(point) ==
    /\ ~widget.m_isPanning
    /\ widget.m_isSelecting
    /\ widget' = mouseMoveSelecting(begin, point)
    /\ lastOp' = "mouseMoveEvent"
    /\ hit' = NoHit

MouseReleaseEvent(shift) ==
    /\ widget' = mouseReleaseEvent(begin, shift)
    /\ lastOp' = "mouseReleaseEvent"
    /\ hit' = NoHit

\* The user-interface thread beside a background thread.  The handler op
\* (getEarthquakeAt or mousePressEvent) has called findEarthquakeAt, which
\* has returned and released the mutex; hit keeps the handler's local
\* variables until the handler goes on.  found is the event id of the
\* entry that findEarthquakeAt chose (0 for none).
CallFindEarthquakeAt(op, point, shift) ==
    /\ hit.kind \notin {"pending", "crash"}
    /\ widget' = unlock(lock(begin, "findEarthquakeAt"))
    /\ hit' = LET index == findEarthquakeAt(widget, point)
              IN [kind |-> "pending", op |-> op, point |-> point, shift |-> shift,
                  index |-> index,
                  found |-> IF index >= 0
                            THEN widget.m_earthquakes[index + 1].data.eventId
                            ELSE 0]
    /\ lastOp' = "findEarthquakeAt"

\* the handler goes on with the index it holds: m_earthquakes[index]
UseIndex ==
    /\ hit.kind = "pending"
    /\ hit.index < Len(widget.m_earthquakes)
    /\ lastOp' = hit.op
    /\ IF hit.op = "getEarthquakeAt"
       THEN /\ widget' = IF hit.index >= 0
                         THEN unlock(lock(begin, "getEarthquakeAt")) ELSE begin
            /\ hit' = [kind |-> "record",
                       data |-> IF hit.index >= 0
                                THEN widget.m_earthquakes[hit.index + 1].data
                                ELSE EmptyEarthquakeData]
       ELSE /\ widget' = IF hit.index >= 0
                         THEN mousePressOnEarthquake(begin, hit.index, hit.shift)
                         ELSE mousePressOnMap(begin, hit.shift)
            /\ hit' = NoHit

\* the index is past the end of the collection: QVector::operator[] out of
\* range is undefined; the process is stopped, or the handler reads (and
\* mousePressEvent writes) outside the collection and goes on
UseIndexOutOfRange ==
    /\ hit.kind = "pending"
    /\ hit.index >= Len(widget.m_earthquakes)
    /\ lastOp' = hit.op
    /\ \E stopped \in BOOLEAN :
          IF stopped
          THEN widget' = begin /\ hit' = [kind |-> "crash"]
          ELSE IF hit.op = "getEarthquakeAt"
          THEN /\ widget' = unlock(lock(begin, "getEarthquakeAt"))
               /\ hit' = [kind |-> "record", data |-> EmptyEarthquakeData]
          ELSE /\ widget' =
                     LET w1 == IF hit.shift THEN begin ELSE clearSelection(begin)
                         listed == \E k \in DOMAIN w1.m_selectedIds :
                                      w1.m_selectedIds[k] = EmptyEarthquakeData.eventId
                         w2 == IF listed THEN w1
                               ELSE [w1 EXCEPT !.m_selectedIds =
                                        Append(w1.m_selectedIds,
                                               EmptyEarthquakeData.eventId)]
                     IN emit(getSelectedEarthquakes(emit(w2, "earthquakeClicked")),
                             "selectionChanged")
               /\ hit' = NoHit

\* removeEarthquake / clearEarthquakes called by the background thread:
\* the user-interface thread's locals stay as they are
BackgroundRemoveEarthquake(eventId) ==
    /\ hit.kind # "crash"
    /\ widget' = removeEarthquake(begin, eventId)
    /\ lastOp' = "removeEarthquake"
    /\ UNCHANGED hit

BackgroundClearEarthquakes ==
    /\ hit.kind # "crash"
    /\ widget' = clearEarthquakes(begin)
    /\ lastOp' = "clearEarthquakes"
    /\ UNCHANGED hit

\* the animation timer fires only while it is active
UpdateAnimation(now) ==
    /\ widget.animationTimerActive
    /\ widget' = updateAnimation(begin, now)
    /\ lastOp' = "updateAnimation"
    /\ hit' = NoHit

StartAnimation ==
    /\ widget' = startAnimation(begin)
    /\ lastOp' = "startAnimation"
    /\ hit' = NoHit

StopAnimation ==
    /\ widget' = stopAnimation(begin)
    /\ lastOp' = "stopAnimation"
    /\ hit' = NoHit

FlashEarthquake(eventId, times) ==
    /\ Len(widget.flashTimers) < MaxTimers
    /\ widget' = flashEarthquake(begin, eventId, times)
    /\ lastOp' = "flashEarthquake"
    /\ hit' = NoHit

\* the k-th flash timer fires; hit tells which timer, and whether the
\* lambda has stopped it
FlashTimeout(k) ==
    /\ k \in DOMAIN widget.flashTimers
    /\ widget.flashTimers[k].active
    /\ widget' = flashTimeout(begin, k)
    /\ lastOp' = "flashTimeout"
    /\ hit' = [kind |-> "flashTick", timer |-> k,
               stopped |-> ~flashTimeout(begin, k).flashTimers[k].active]

\* hit is what the paint has drawn: the number of single markers
PaintEvent ==
    /\ widget' = paintEvent(begin)
    /\ lastOp' = "paintEvent"
    /\ hit' = [kind |-> "painted", drawn |-> renderEarthquakes(widget)]

\* a hit test at a pixel (mouse press, hover, context menu, getEarthquakeAt)
FindEarthquakeAt(point) ==
    /\ widget' = unlock(lock(begin, "findEarthquakeAt"))
    /\ hit' = [kind |-> "at", point |-> point,
               index |-> findEarthquakeAt(widget, point)]
    /\ lastOp' = "findEarthquakeAt"

\* a rubber-band query (mouse release)
FindEarthquakesInRect(rect) ==
    /\ widget' = unlock(lock(begin, "findEarthquakesInRect"))
    /\ hit' = [kind |-> "rect", rect |-> rect,
               indices |-> findEarthquakesInRect(widget, rect)]
    /\ lastOp' = "findEarthquakesInRect"

----------------------------------------------------------------------------
(* Inputs *)

\* records of the feed: a shallow strong event at the origin, a weak one
\* 18 degrees east of it, a deep old one further north, one beyond the
\* +/-180 seam
Profile(k) ==
    CASE k = 0 -> [latitude |-> 0, longitude |-> 0, magnitude |-> 5,
                   depth |-> 10, timestamp |-> 5]
      [] k = 1 -> [latitude |-> 0, longitude |-> 1800, magnitude |-> 3,
                   depth |-> 10, timestamp |-> 5]
      [] k = 2 -> [latitude |-> 3000, longitude |-> 1800, magnitude |-> 5,
                   depth |-> 300, timestamp |-> 1]
      [] k = 3 -> [latitude |-> 0, longitude |-> 0 - 17100, magnitude |-> 5,
                   depth |-> 10, timestamp |-> 5]

EarthquakeData(id, p) ==
    [eventId |-> id, latitude |-> p.latitude, longitude |-> p.longitude,
     magnitude |-> p.magnitude, depth |-> p.depth, timestamp |-> p.timestamp]

\* three versions of every event
Feed ==
    {EarthquakeData(i, Profile((i - 1 + v) % 4)) : i \in EventIds, v \in {0, 1, 3}}

\* the feed of the filter scenarios: the weak event, and an event that is
\* either strong and near or deep, old and outside the location filter
FilterFeed ==
    {EarthquakeData(1, Profile(1)), EarthquakeData(2, Profile(0)),
     EarthquakeData(2, Profile(2))}

\* every event as first reported, and the first two events as revised
IngestFeed ==
    {EarthquakeData(i, Profile((i - 1) % 4)) : i \in EventIds}
        \cup {EarthquakeData(i, Profile(i % 4)) : i \in EventIds \cap {1, 2}}

\* batches of two records: both versions of one event, or two events that
\* follow each other in the feed
Batches ==
    {b \in IngestFeed \X IngestFeed :
        /\ b[1] # b[2]
        /\ b[2].eventId \in {b[1].eventId, b[1].eventId + 1}}

\* the event the user clicks on
SelectIds == {1}

\* batches of two different events
PairBatches == {<<e, f>> : e \in {g \in Feed : g.eventId = 1},
                           f \in {g \in Feed : g.eventId = 2}}

\* events on the equator, 18 degrees (40 pixels at zoom 1) apart
LineFeed ==
    {EarthquakeData(i, [latitude |-> 0, longitude |-> 1800 * (i - 1), magnitude |-> 5,
                        depth |-> 10, timestamp |-> 5]) : i \in 1..MaxMarkers}

\* events of the hit-test scenarios: two strong events 40 pixels apart that
\* are revised to a weak one and to the place of the other, and strong
\* events north of them
QueryFeed ==
    {EarthquakeData(i, [latitude |-> IF i > 2 THEN 1500 ELSE 0,
                        longitude |-> 1800 * ((i - 1) % 2), magnitude |-> 9,
                        depth |-> 10, timestamp |-> 5]) : i \in EventIds}
        \cup {EarthquakeData(1, [latitude |-> 0, longitude |-> 1800, magnitude |-> 3,
                                 depth |-> 10, timestamp |-> 5]),
              EarthquakeData(2, [latitude |-> 0, longitude |-> 0, magnitude |-> 9,
                                 depth |-> 10, timestamp |-> 5])}

\* what QSettings may hold: nothing, the zoom of an earlier session, a zoom
\* of 100, and a zoomLevel entry that does not convert to a number
\* (toDouble() gives 0)
StoredSettings ==
    {[NoStoredSettings EXCEPT !.zoomLevel = z] : z \in {20, 80, 2000, 0}}

\* what the build makes of x / 0.0
ZeroDivides == {"inf", "finite"}

\* cursor positions of the wheel, on the row of the centre: the centre, a
\* quarter of the width to its right and to its left
Cursors == {<<400, 300>>, <<600, 300>>, <<200, 300>>}

\* zoom levels the wheel starts from: 1.0, 3.0, 40.0
WheelZooms == {20, 60, 800}

\* events of the expand/collapse scenarios: two pairs on the equator, 40
\* pixels between the markers of a pair and 160 pixels between the pairs
PairsFeed ==
    {EarthquakeData(i, [latitude |-> 0,
                        longitude |-> 1800 * ((i - 1) % 2) + 9000 * ((i - 1) \div 2),
                        magnitude |-> 5, depth |-> 10, timestamp |-> 5]) : i \in 1..4}

\* corners of the rubber band: around both markers of the race feed or
\* around the first only
BandCorners == {<<390, 290>>, <<450, 310>>, <<420, 310>>}

\* records of the visible-bounds scenarios: 90 degrees east of Greenwich on
\* the equator, and 45 degrees west at 45 degrees north
BoundsFeed ==
    {EarthquakeData(1, [latitude |-> 0, longitude |-> 9000, magnitude |-> 5,
                        depth |-> 10, timestamp |-> 5]),
     EarthquakeData(2, [latitude |-> 4500, longitude |-> 0 - 4500, magnitude |-> 5,
                        depth |-> 10, timestamp |-> 5])}

\* zoom levels of the visible-bounds scenarios: 0.5, 1.0, 2.0 and 4.0
BoundsZooms == {10, 20, 40, 80}

\* centres of the visible-bounds scenarios
BoundsCenters == {<<0, 0>>, <<0, 9000>>, <<3000, 0>>, <<3000, 0 - 4500>>}

\* how often to flash
FlashTimes == 0..2

\* events of the removal scenarios: a pair and a marker far from it
StaleFeed == {e \in PairsFeed : e.eventId <= 3}

\* cluster ids handed to expandCluster / collapseCluster, -1 and 2 out of
\* range
ClusterIds == (0 - 1)..2

\* latitudes of the round trip: every 15 degrees up to 75, and the end
\* points 85 and -85
RoundTripLatitudes == {1500 * k : k \in (0 - 5)..5} \cup {8500, 0 - 8500}

RoundTripLongitudes == {0 - 17999, 0, 9000, 18000}

\* the characters of the inputs of parseCoordinate: digits, the
\* separator, white space and a letter
Alphabet == Digits \cup {",", " ", "x"}

Inputs == UNION {[1..n -> Alphabet] : n \in 0..MaxLen}

\* the first pair of PairsFeed
RaceFeed == {e \in PairsFeed : e.eventId <= 2}

\* where the mouse is pressed: on the markers of RaceFeed and on the map
MousePoints == {<<400, 300>>, <<440, 300>>, <<100, 100>>}

\* handlers that look a marker up and then use its index
LookupOps == {"getEarthquakeAt", "mousePressEvent"}

\* events of the aggregate scenarios: three events 10 pixels apart, two of
\* them of negative magnitude
AggregateFeed ==
    {EarthquakeData(1, [latitude |-> 0, longitude |-> 0, magnitude |-> 0 - 2,
                        depth |-> 10, timestamp |-> 5]),
     EarthquakeData(2, [latitude |-> 0, longitude |-> 450, magnitude |-> 0 - 1,
                        depth |-> 10, timestamp |-> 9]),
     EarthquakeData(3, [latitude |-> 0, longitude |-> 900, magnitude |-> 3,
                        depth |-> 10, timestamp |-> 1])}

\* magnitude filters of the aggregate scenarios
AggregateFilters == {<<0 - 5, 10>>, <<0, 10>>}

\* events of the threshold scenarios: one event at the centre and a second
\* one 10, 40 or 60 pixels east of it
ThresholdFeed ==
    {EarthquakeData(1, [latitude |-> 0, longitude |-> 0, magnitude |-> 5,
                        depth |-> 10, timestamp |-> 5])}
      \cup {EarthquakeData(2, [latitude |-> 0, longitude |-> lon, magnitude |-> 5,
                               depth |-> 10, timestamp |-> 5]) : lon \in {450, 1800, 2700}}

\* cluster thresholds of the threshold scenarios: 5, 10, 40, 50 pixels
Thresholds == {500, 1000, 4000, 5000}

\* events of the animation scenarios: 25 hours, 21 hours and 0 hours old
\* at the earliest clock value
AnimationFeed ==
    {EarthquakeData(1, [latitude |-> 0, longitude |-> 0, magnitude |-> 5,
                        depth |-> 10, timestamp |-> 5]),
     EarthquakeData(2, [latitude |-> 0, longitude |-> 0, magnitude |-> 5,
                        depth |-> 10, timestamp |-> 9]),
     EarthquakeData(3, [latitude |-> 0, longitude |-> 0, magnitude |-> 5,
                        depth |-> 10, timestamp |-> 30])}

\* values of the clock, in hours
Clock == {30, 31}

\* the bulk feed: MaxBulk events of magnitude 5 at the centre of the map
BulkFeed ==
    {EarthquakeData(i, [latitude |-> 0, longitude |-> 0, magnitude |-> 5,
                        depth |-> 10, timestamp |-> 5]) : i \in 1..MaxBulk}

\* zoom levels of the level-of-detail scenarios: 0.4 and 1.0
LodZooms == {8, 20}

\* events of the centring scenarios: an ordinary one, and a very strong,
\* very deep one (magnitude 11, 1200 km)
CenterFeed ==
    {EarthquakeData(1, Profile(0)),
     EarthquakeData(2, [latitude |-> 0, longitude |-> 1800, magnitude |-> 11,
                        depth |-> 1200, timestamp |-> 5])}

\* centres asked for: in range, beyond the pole, a full turn east, the seam
\* from either side
CenterInputs ==
    {<<0, 0>>, <<0, 1800>>, <<9000, 0>>, <<9500, 0>>, <<0, 36000>>,
     <<0, 18000>>, <<0, 0 - 18000>>}

\* pixels the user clicks on
Points == {<<400, 300>>, <<415, 300>>, <<420, 300>>, <<440, 300>>, <<400, 331>>}

\* rubber bands <<left, top, right, bottom>>
Rects == {<<390, 290, 450, 310>>, <<0, 0, 100, 100>>}

ClusterDistances == {5000, 10000}

MagnitudeFilters == {<<0, 10>>, <<4, 10>>}

DepthFilters == {<<0, 1000>>, <<0, 100>>}

TimeFilters == {<<NoTime, NoTime>>, <<3, NoTime>>}

LocationFilters ==
    {[minLatitude |-> 0, maxLatitude |-> 0, minLongitude |-> 0, maxLongitude |-> 0],
     [minLatitude |-> 0 - 1000, maxLatitude |-> 1000,
      minLongitude |-> 0 - 1000, maxLongitude |-> 1000]}

Centers == {<<0, 0>>, <<0, 17100>>}

Zooms == {20, 80}

Sizes == {<<800, 600>>, <<1200, 900>>}

Projections == {Mercator, Equirectangular}

----------------------------------------------------------------------------
(* Ingestion: the operations on the record collection *)

Next ==
    \/ \E e \in IngestFeed : AddEarthquake(e)
    \/ \E b \in Batches : AddEarthquakes(b)
    \/ \E e \in IngestFeed : UpdateEarthquake(e)
    \/ \E i \in EventIds : RemoveEarthquake(i)
    \/ ClearEarthquakes
    \/ \E i \in SelectIds : SelectEarthquake(i)

Spec == Init /\ [][Next]_vars

----------------------------------------------------------------------------
(* Marker model: ingestion, filters, viewport *)

NextFilter ==
    \/ \E e \in FilterFeed : AddEarthquake(e)
    \/ \E e \in FilterFeed, f \in FilterFeed : AddEarthquakes(<<e, f>>)
    \/ \E e \in FilterFeed : UpdateEarthquake(e)
    \/ \E f \in MagnitudeFilters : SetMagnitudeFilter(f[1], f[2])
    \/ \E f \in DepthFilters : SetDepthFilter(f[1], f[2])
    \/ \E f \in TimeFilters : SetTimeFilter(f[1], f[2])
    \/ \E f \in LocationFilters : SetLocationFilter(f)
    \/ \E c \in Centers : SetCenter(c[1], c[2])

SpecFilter == Init /\ [][NextFilter]_vars

----------------------------------------------------------------------------
(* Marker model: record set and viewport *)

NextView ==
    \/ \E e \in Feed : AddEarthquake(e)
    \/ \E b \in PairBatches : AddEarthquakes(b)
    \/ \E e \in Feed : UpdateEarthquake(e)
    \/ \E c \in Centers : SetCenter(c[1], c[2])
    \/ \E z \in Zooms : SetZoomLevel(z)
    \/ \E s \in Sizes : ResizeEvent(s)

SpecView == Init /\ [][NextView]_vars

----------------------------------------------------------------------------
(* Invalidation: clusters under filter and viewport changes *)

NextInvalidate ==
    \/ \E b \in PairBatches : AddEarthquakes(b)
    \/ \E f \in MagnitudeFilters : SetMagnitudeFilter(f[1], f[2])
    \/ \E f \in DepthFilters : SetDepthFilter(f[1], f[2])
    \/ \E f \in TimeFilters : SetTimeFilter(f[1], f[2])
    \/ \E f \in LocationFilters : SetLocationFilter(f)
    \/ \E c \in Centers : SetCenter(c[1], c[2])
    \/ \E z \in Zooms : SetZoomLevel(z)
    \/ \E p \in Projections : SetProjection(p)
    \/ \E s \in Sizes : ResizeEvent(s)

SpecInvalidate == Init /\ [][NextInvalidate]_vars

----------------------------------------------------------------------------
(* Clustering: record set and cluster settings *)

NextCluster ==
    \/ \E e \in LineFeed : AddEarthquake(e)
    \/ \E e \in LineFeed : AddEarthquakes(<<e>>)
    \/ \E i \in 1..MaxMarkers : RemoveEarthquake(i)
    \/ \E d \in ClusterDistances : SetClusterDistance(d)
    \/ \E b \in BOOLEAN : EnableClustering(b)

SpecCluster == Init /\ [][NextCluster]_vars

----------------------------------------------------------------------------
(* Hit testing: record set, magnitude filter, zoom, queries *)

NextQuery ==
    \/ \E e \in QueryFeed : AddEarthquake(e)
    \/ \E e \in QueryFeed : UpdateEarthquake(e)
    \/ \E f \in MagnitudeFilters : SetMagnitudeFilter(f[1], f[2])
    \/ \E z \in Zooms : SetZoomLevel(z)
    \/ \E p \in Points : FindEarthquakeAt(p)
    \/ \E r \in Rects : FindEarthquakesInRect(r)

SpecQuery == Init /\ [][NextQuery]_vars

----------------------------------------------------------------------------
(* Centring: record set, setCenter, painting *)

NextCenter ==
    \/ \E e \in CenterFeed : AddEarthquake(e)
    \/ \E e \in CenterFeed : AddEarthquakes(<<e>>)
    \/ \E c \in CenterInputs : SetCenter(c[1], c[2])
    \/ PaintEvent

SpecCenter == Init /\ [][NextCenter]_vars

----------------------------------------------------------------------------
(* Start-up from stored settings, zooming *)

InitStored ==
    /\ \E stored \in StoredSettings, z \in ZeroDivides :
          widget = constructedWith(stored, <<800, 600>>, z)
    /\ lastOp = "constructor"
    /\ hit = NoHit

\* a widget whose constructor does not return takes no calls
NextStored ==
    /\ ~widget.hung
    /\ \/ \E e \in FilterFeed : AddEarthquake(e)
       \/ \E z \in Zooms : SetZoomLevel(z)
       \/ ZoomIn
       \/ ZoomOut

SpecStored == InitStored /\ [][NextStored]_vars

----------------------------------------------------------------------------
(* Zooming with the wheel *)

\* the wheel is turned in the views of the model: a centre of Centers at
\* a zoom level of WheelZooms
inWheelView(w) ==
    /\ w.m_zoomLevel \in WheelZooms
    /\ <<w.m_centerLatitude, w.m_centerLongitude>> \in Centers

NextWheel ==
    \/ \E e \in CenterFeed : AddEarthquake(e)
    \/ \E c \in Centers : SetCenter(c[1], c[2])
    \/ \E z \in WheelZooms : SetZoomLevel(z)
    \/ /\ inWheelView(widget)
       /\ \E p \in Cursors, up \in BOOLEAN : WheelEvent(p, up)

SpecWheel == Init /\ [][NextWheel]_vars

----------------------------------------------------------------------------
(* Expanding and collapsing clusters *)

NextExpand ==
    \/ \E e \in PairsFeed : AddEarthquakes(<<e>>)
    \/ \E d \in ClusterDistances : SetClusterDistance(d)
    \/ \E b \in BOOLEAN : EnableClustering(b)
    \/ \E c \in ClusterIds : ExpandCluster(c)
    \/ \E c \in ClusterIds : CollapseCluster(c)
    \/ ExpandTimeout

SpecExpand == Init /\ [][NextExpand]_vars

----------------------------------------------------------------------------
(* Removing records while clusters exist *)

NextStale ==
    \/ \E e \in StaleFeed : AddEarthquakes(<<e>>)
    \/ \E e \in StaleFeed : RemoveEarthquake(e.eventId)
    \/ \E c \in ClusterIds : ExpandCluster(c)
    \/ \E c \in ClusterIds : CollapseCluster(c)
    \/ ExpandTimeout

SpecStale == Init /\ [][NextStale]_vars

----------------------------------------------------------------------------
(* Selecting by calls and by mouse *)

NextSelect ==
    \/ \E e \in RaceFeed : AddEarthquakes(<<e>>)
    \/ \E e \in RaceFeed : RemoveEarthquake(e.eventId)
    \/ ClearEarthquakes
    \/ \E e \in RaceFeed : SelectEarthquake(e.eventId)
    \/ \E e \in RaceFeed : SelectEarthquakes(<<e.eventId>>)
    \/ ClearSelection
    \/ \E p \in MousePoints, shift \in BOOLEAN : MousePressEvent(p, shift)
    \/ \E p \in BandCorners : MousePressControl(p)
    \/ \E p \in BandCorners : MouseMoveSelecting(p)
    \/ \E shift \in BOOLEAN : MouseReleaseEvent(shift)

SpecSelect == Init /\ [][NextSelect]_vars

----------------------------------------------------------------------------
(* The visible bounds under both projections *)

NextBounds ==
    \/ \E e \in BoundsFeed : AddEarthquake(e)
    \/ \E c \in BoundsCenters : SetCenter(c[1], c[2])
    \/ \E z \in BoundsZooms : SetZoomLevel(z)
    \/ \E p \in Projections : SetProjection(p)

SpecBounds == Init /\ [][NextBounds]_vars

----------------------------------------------------------------------------
(* Flashing markers *)

NextFlash ==
    \/ \E e \in RaceFeed : AddEarthquakes(<<e>>)
    \/ \E e \in RaceFeed, times \in FlashTimes : FlashEarthquake(e.eventId, times)
    \/ \E k \in 1..MaxTimers : FlashTimeout(k)

SpecFlash == Init /\ [][NextFlash]_vars

\* an active timer fires again after its interval
SpecFlashFair ==
    SpecFlash /\ \A k \in 1..MaxTimers : WF_vars(FlashTimeout(k))

----------------------------------------------------------------------------
(* Projecting and unprojecting *)

NextRoundTrip ==
    \/ \E p \in Projections : SetProjection(p)
    \/ \E lat \in RoundTripLatitudes, lon \in RoundTripLongitudes :
          ProjectCoordinate(lat, lon)
    \/ UnprojectCoordinate

SpecRoundTrip == Init /\ [][NextRoundTrip]_vars

----------------------------------------------------------------------------
(* Parsing a coordinate *)

InitParse ==
    /\ widget = constructed(<<800, 600>>)
    /\ lastOp = "constructor"
    /\ hit \in {[kind |-> "input", input |-> input] : input \in Inputs}

NextParse == ParseCoordinate

SpecParse == InitParse /\ [][NextParse]_vars

----------------------------------------------------------------------------
(* User interaction beside a background thread that removes records *)

\* the user-interface thread ingests and looks markers up; once it is
\* inside a lookup handler it only goes on with that handler
NextRace ==
    \/ /\ hit.kind \notin {"pending", "crash"}
       /\ \E e \in RaceFeed : AddEarthquakes(<<e>>)
    \/ \E op \in LookupOps, p \in MousePoints, shift \in BOOLEAN :
          CallFindEarthquakeAt(op, p, shift)
    \/ UseIndex
    \/ UseIndexOutOfRange
    \/ \E e \in RaceFeed : BackgroundRemoveEarthquake(e.eventId)
    \/ BackgroundClearEarthquakes

SpecRace == Init /\ [][NextRace]_vars

----------------------------------------------------------------------------
(* Cluster aggregates: records of negative magnitude *)

NextAggregate ==
    \/ \E e \in AggregateFeed : AddEarthquakes(<<e>>)
    \/ \E f \in AggregateFilters : SetMagnitudeFilter(f[1], f[2])
    \/ \E d \in ClusterDistances : SetClusterDistance(d)

SpecAggregate == Init /\ [][NextAggregate]_vars

----------------------------------------------------------------------------
(* Cluster threshold: two markers *)

NextThreshold ==
    \/ \E e \in ThresholdFeed : AddEarthquakes(<<e>>)
    \/ \E t \in Thresholds : SetClusterDistance(t)
    \/ \E b \in BOOLEAN : EnableClustering(b)

SpecThreshold == Init /\ [][NextThreshold]_vars

----------------------------------------------------------------------------
(* Animation of the markers *)

\* construction with animation enabled or disabled in the stored settings
InitAnimation ==
    /\ \E enabled \in BOOLEAN :
          widget = constructedWith([NoStoredSettings EXCEPT !.animationEnabled = enabled],
                                   <<800, 600>>, "inf")
    /\ lastOp = "constructor"
    /\ hit = NoHit

NextAnimation ==
    \/ \E e \in AnimationFeed : AddEarthquake(e)
    \/ \E now \in Clock : UpdateAnimation(now)
    \/ StartAnimation
    \/ StopAnimation

SpecAnimation == InitAnimation /\ [][NextAnimation]_vars

----------------------------------------------------------------------------
(* Painting a large record set *)

\* the records of the bulk feed arrive in the order of their ids
NextLod ==
    \/ \E e \in BulkFeed :
          /\ e.eventId = Len(widget.m_earthquakes) + 1
          /\ LoadEarthquake(e)
    \/ \E z \in LodZooms : SetZoomLevel(z)
    \/ PaintEvent

SpecLod == Init /\ [][NextLod]_vars

----------------------------------------------------------------------------
(* Properties of the marker model under filters *)

\* the four filter predicates, each on its own
failsMagnitude(w, data) ==
    data.magnitude < w.m_minMagnitude \/ data.magnitude > w.m_maxMagnitude

failsDepth(w, data) == data.depth < w.m_minDepth \/ data.depth > w.m_maxDepth

failsTime(w, data) ==
    \/ isValidTime(w.m_startTime) /\ data.timestamp < w.m_startTime
    \/ isValidTime(w.m_endTime) /\ data.timestamp > w.m_endTime

failsLocation(w, data) ==
    /\ w.m_hasLocationFilter
    /\ \/ data.latitude < w.m_locationFilter.minLatitude
       \/ data.latitude > w.m_locationFilter.maxLatitude
       \/ data.longitude < w.m_locationFilter.minLongitude
       \/ data.longitude > w.m_locationFilter.maxLongitude

failsSomeFilter(w, data) ==
    \/ failsMagnitude(w, data)
    \/ failsDepth(w, data)
    \/ failsTime(w, data)
    \/ failsLocation(w, data)

\* C1: in every reachable state a marker whose record fails at least one
\* active filter predicate (magnitude range, depth range, time window,
\* location rectangle) is not visible, whatever the other predicates say.
FilteredOutIsHidden ==
    \A i \in DOMAIN widget.m_earthquakes :
        failsSomeFilter(widget, widget.m_earthquakes[i].data)
            => ~widget.m_earthquakes[i].isVisible

----------------------------------------------------------------------------
(* Properties of the data mutex *)

\* C2: no add/update/remove operation still holds the data mutex when a
\* recompute pass (updateVisibleEarthquakes, updateClusters, clearClusters)
\* starts.
NoRecomputeUnderMutex == ~widget.m_dataMutex.recomputeHeld

----------------------------------------------------------------------------
(* Properties of the clusters *)

\* Euclidean distance of the screen positions of entries i and j (1-based)
\* is at most the cluster threshold
withinClusterDistance(w, i, j) ==
    LET dx == w.m_earthquakes[i].screenPos.x - w.m_earthquakes[j].screenPos.x
        dy == w.m_earthquakes[i].screenPos.y - w.m_earthquakes[j].screenPos.y
        d == w.m_settings.clusterDistance
    IN Abs(dx) <= d /\ Abs(dy) <= d /\ dx * dx + dy * dy <= d * d

visibleEntries(w) == {i \in DOMAIN w.m_earthquakes : w.m_earthquakes[i].isVisible}

RECURSIVE chained(_, _, _)
\* the visible entries joined to those of S by a chain of at most n links
chained(w, S, n) ==
    IF n = 0 THEN S
    ELSE chained(w, S \cup {j \in visibleEntries(w) :
                               \E k \in S : withinClusterDistance(w, k, j)}, n - 1)

component(w, i) == chained(w, {i}, Len(w.m_earthquakes))

\* the 1-based positions of the members of cluster c
members(w, c) ==
    {w.m_clusters[c].earthquakeIds[k] + 1 : k \in DOMAIN w.m_clusters[c].earthquakeIds}

inSameCluster(w, i, j) ==
    \E c \in DOMAIN w.m_clusters : i \in members(w, c) /\ j \in members(w, c)

ClusteringOps == {"addEarthquakes", "setClusterDistance", "enableClustering"}

\* C3: after updateClusters has run with clustering enabled, two visible
\* markers are in the same cluster if and only if they are joined by a chain
\* of visible markers whose consecutive pairs are at Euclidean screen
\* distance <= the cluster threshold, for every layout and record ordering.
ClustersAreComponents ==
    (lastOp \in ClusteringOps /\ widget.m_settings.enableClustering)
        => \A i, j \in visibleEntries(widget) :
              i # j => (inSameCluster(widget, i, j) <=> j \in component(widget, i))

RecomputeOps ==
    {"setMagnitudeFilter", "setDepthFilter", "setTimeFilter", "setLocationFilter",
     "setCenter", "setZoomLevel", "setProjection", "resizeEvent"}

\* C4: while clustering is enabled, after an operation that recomputes the
\* marker model (a filter setter, setCenter, setZoomLevel, setProjection,
\* resize) has returned, no cluster contains a marker whose visible flag is
\* now false, and every cluster member is within the cluster threshold of
\* another member at the current screen positions.
ClustersFollowMarkers ==
    (lastOp \in RecomputeOps /\ widget.m_settings.enableClustering)
        => \A c \in DOMAIN widget.m_clusters :
              \A i \in members(widget, c) :
                 /\ i \in visibleEntries(widget)
                 /\ \E j \in members(widget, c) \ {i} :
                       withinClusterDistance(widget, i, j)

----------------------------------------------------------------------------
(* Properties of the cached screen positions *)

\* C5: after any record-set or viewport operation (addEarthquake,
\* addEarthquakes, updateEarthquake, setCenter, setZoomLevel, resize) every
\* marker's cached screenPos equals the screen position of the latitude and
\* longitude of its current record under the current viewport.
ScreenPosFresh ==
    \A i \in DOMAIN widget.m_earthquakes :
        widget.m_earthquakes[i].screenPos
            = latLonToScreen(widget, widget.m_earthquakes[i].data.latitude,
                             widget.m_earthquakes[i].data.longitude)

----------------------------------------------------------------------------
(* Properties of the record collection *)

IdsUnique(eqs) ==
    \A i, j \in DOMAIN eqs : i # j => eqs[i].data.eventId # eqs[j].data.eventId

\* the entry at position i now holds record e, with its flags as before,
\* and no other entry moved or changed its record
ReplacedInPlace(old, new, i, e) ==
    /\ Len(new) = Len(old)
    /\ new[i].data = e
    /\ new[i].isSelected = old[i].isSelected
    /\ new[i].isHighlighted = old[i].isHighlighted
    /\ \A j \in DOMAIN old : j # i => new[j].data = old[j].data

\* the last record of a batch that carries this event id
LastOfId(b, id) ==
    b[CHOOSE k \in DOMAIN b :
        /\ b[k].eventId = id
        /\ \A m \in DOMAIN b : m > k => b[m].eventId # id]

\* every entry present before the batch is still at its position with its
\* flags, holding the last batch record of its id if the batch has one; the
\* collection grew by the number of new ids in the batch
BatchUpserted(old, new, b) ==
    LET batchIds == {b[k].eventId : k \in DOMAIN b}
        oldIds == {old[j].data.eventId : j \in DOMAIN old}
    IN /\ Len(new) = Len(old) + Cardinality(batchIds \ oldIds)
       /\ \A j \in DOMAIN old :
            /\ new[j].data = IF old[j].data.eventId \in batchIds
                             THEN LastOfId(b, old[j].data.eventId)
                             ELSE old[j].data
            /\ new[j].isSelected = old[j].isSelected
            /\ new[j].isHighlighted = old[j].isHighlighted

\* C6: after any sequence of addEarthquake, addEarthquakes, updateEarthquake
\* and removeEarthquake no two entries of the record collection share an
\* event identifier, and ingesting a record whose identifier is already
\* present replaces that entry's data in place (same position, same
\* selected/highlighted flags, collection size unchanged) instead of
\* appending: stated in every reachable state for every record and batch
\* of the feed that could be ingested next.
UpsertKeepsIdentity ==
    LET old == widget.m_earthquakes
    IN /\ IdsUnique(old)
       /\ \A e \in IngestFeed :
            LET i == indexOfId(old, e.eventId)
            IN i # 0 =>
                 /\ ReplacedInPlace(old, addEarthquake(begin, e).m_earthquakes, i, e)
                 /\ ReplacedInPlace(old, updateEarthquake(begin, e).m_earthquakes, i, e)
       /\ \A b \in Batches :
            BatchUpserted(old, addEarthquakes(begin, b).m_earthquakes, b)

\* a selected entry has just been replaced by addEarthquake: only the branch
\* for an existing id takes the mutex a second time
SelectedEntryReplaced ==
    /\ lastOp = "addEarthquake"
    /\ widget.m_dataMutex.relock
    /\ Len(widget.m_earthquakes) >= 2
    /\ \E i \in DOMAIN widget.m_earthquakes : widget.m_earthquakes[i].isSelected

----------------------------------------------------------------------------
(* Properties of the spatial queries *)

\* half the on-screen display size of entry i (0-based) plus 5 pixels
reach(w, i) == getScaledSize(w, w.m_earthquakes[i + 1].displaySize) \div 2 + 500

\* entry i (0-based) is within its reach of the point
inReach(w, point, i) ==
    LET dx == 100 * point[1] - w.m_earthquakes[i + 1].screenPos.x
        dy == 100 * point[2] - w.m_earthquakes[i + 1].screenPos.y
        t == reach(w, i)
    IN Abs(dx) <= t /\ Abs(dy) <= t /\ dx * dx + dy * dy <= t * t

\* squared distance of an entry in reach
squaredDistance(w, point, i) ==
    LET dx == 100 * point[1] - w.m_earthquakes[i + 1].screenPos.x
        dy == 100 * point[2] - w.m_earthquakes[i + 1].screenPos.y
    IN dx * dx + dy * dy

\* the visible markers that qualify as hits of the point
qualifying(w, point) ==
    {i \in 0..(Len(w.m_earthquakes) - 1) :
        w.m_earthquakes[i + 1].isVisible /\ inReach(w, point, i)}

\* C7: findEarthquakeAt(point) returns a visible marker whose Euclidean
\* screen distance to the point is at most half its on-screen display size
\* plus 5 pixels and is minimal among the visible markers within that
\* bound; it returns -1 exactly when no visible marker is within the bound.
HitIsNearestQualifying ==
    hit.kind = "at" =>
        LET Q == qualifying(widget, hit.point)
        IN IF Q = {} THEN hit.index = 0 - 1
           ELSE /\ hit.index \in Q
                /\ \A j \in Q : squaredDistance(widget, hit.point, hit.index)
                                   <= squaredDistance(widget, hit.point, j)

\* a click between two markers in reach of it found the nearer one
NearerOfTwoFound ==
    /\ hit.kind = "at"
    /\ hit.index # 0 - 1
    /\ Cardinality(qualifying(widget, hit.point)) >= 2
    /\ \E j \in qualifying(widget, hit.point) :
          squaredDistance(widget, hit.point, hit.index)
             < squaredDistance(widget, hit.point, j)

\* C8: when two qualifying visible markers are at exactly the same distance
\* from the query point, findEarthquakeAt returns the one that comes later
\* in the record ordering.
TieGoesToLater ==
    (hit.kind = "at" /\ hit.index # 0 - 1) =>
        ~\E j \in qualifying(widget, hit.point) :
            /\ j > hit.index
            /\ squaredDistance(widget, hit.point, j)
                  = squaredDistance(widget, hit.point, hit.index)

\* the record of entry i (0-based) lies in the visible bounds and passes
\* the filters
onScreen(w, i) ==
    LET data == w.m_earthquakes[i + 1].data
    IN /\ data.latitude >= w.m_visibleBounds.minLatitude
       /\ data.latitude <= w.m_visibleBounds.maxLatitude
       /\ data.longitude >= w.m_visibleBounds.minLongitude
       /\ data.longitude <= w.m_visibleBounds.maxLongitude
       /\ ~failsSomeFilter(w, data)

\* C9: findEarthquakeAt and findEarthquakesInRect never return a marker
\* that is off-screen with respect to the current viewport and filters:
\* every returned marker's record lies inside the visible bounds and passes
\* the filters, and findEarthquakesInRect returns all and only such markers
\* whose screen position lies within the rectangle.
QueriesReturnOnScreen ==
    /\ (hit.kind = "at" /\ hit.index # 0 - 1) => onScreen(widget, hit.index)
    /\ hit.kind = "rect" =>
          {hit.indices[k] : k \in DOMAIN hit.indices}
             = {i \in 0..(Len(widget.m_earthquakes) - 1) :
                   /\ onScreen(widget, i)
                   /\ rectContains(hit.rect,
                         <<toPoint(widget.m_earthquakes[i + 1].screenPos.x),
                           toPoint(widget.m_earthquakes[i + 1].screenPos.y)>>)}

----------------------------------------------------------------------------
(* Properties of the visible bounds *)

\* the viewport crosses the +/-180 seam: updateVisibleBounds found the left
\* edge east of the right edge and moved the right edge by 360 degrees
seamCrossed(w) == w.m_visibleBounds.maxLongitude > 18000

\* the longitude lies in the wrapped interval of the bounds
inWrappedInterval(b, lon) ==
    lon >= b.minLongitude \/ lon <= b.maxLongitude - 36000

\* C10: when the viewport crosses the +/-180 degree seam, the visible bounds
\* accept every in-latitude record whose longitude lies in the wrapped
\* interval, also those on the far side of the seam whose normalized
\* longitude is smaller than the left-edge longitude.
WrappedBoundsAccept ==
    seamCrossed(widget) =>
        \A e \in Feed :
            (/\ e.latitude >= widget.m_visibleBounds.minLatitude
             /\ e.latitude <= widget.m_visibleBounds.maxLatitude
             /\ inWrappedInterval(widget.m_visibleBounds, e.longitude))
                => isEarthquakeVisible(widget, e)

----------------------------------------------------------------------------
(* Properties of the viewport operations *)

\* C11: setCenter(lat, lon) whose clamped and normalized target does not
\* differ from the current centre (by more than 1e-6 degree, which is below
\* one unit of the model) is a no-op: centre, visible bounds and every
\* marker are unchanged, the background cache stays as it is, and neither
\* centerChanged nor boundsChanged is emitted.  Stated in every reachable
\* state for every centre that could be asked for next.
SetCenterNoOp ==
    \A c \in CenterInputs :
        (/\ qBound(-9000, c[1], 9000) = widget.m_centerLatitude
         /\ normalizeLongitude(c[2]) = widget.m_centerLongitude)
            => setCenter(begin, c[1], c[2]) = begin

\* setCenter has just returned without emitting anything, with markers on
\* the map, a valid background cache and a centre that an earlier setCenter
\* moved to the pole
CenterKeptQuietly ==
    /\ lastOp = "setCenter"
    /\ widget.emitted = <<>>
    /\ widget.m_backgroundCacheValid
    /\ widget.m_centerLatitude = 9000
    /\ widget.m_earthquakes # <<>>

\* C12: in every reachable state, also directly after construction and
\* loadSettings and after any sequence of setZoomLevel, zoomIn and zoomOut,
\* the zoom level lies in [MIN_ZOOM, MAX_ZOOM] = [0.1, 50].
ZoomInRange == MIN_ZOOM <= widget.m_zoomLevel /\ widget.m_zoomLevel <= MAX_ZOOM

----------------------------------------------------------------------------
(* Properties of the centre and of the unset filters *)

\* C13: after setCenter(lat, lon) the stored centre latitude is in
\* [-90, 90] and the stored centre longitude is in the half-open interval
\* (-180, 180]: -180 is never stored.
CenterInHalfOpenRange ==
    lastOp = "setCenter" =>
        /\ -9000 <= widget.m_centerLatitude /\ widget.m_centerLatitude <= 9000
        /\ -18000 < widget.m_centerLongitude /\ widget.m_centerLongitude <= 18000

\* the filter members still have the values the constructor gave them
noFilterSet(w) ==
    /\ w.m_minMagnitude = 0 /\ w.m_maxMagnitude = 10
    /\ w.m_minDepth = 0 /\ w.m_maxDepth = 1000
    /\ ~isValidTime(w.m_startTime) /\ ~isValidTime(w.m_endTime)
    /\ ~w.m_hasLocationFilter

\* C15: when no filter has ever been set, passesFilters is true for every
\* record whatever its magnitude, depth and timestamp, and every record
\* inside the visible bounds is visible after a recompute.
UnsetFiltersUnconstrained ==
    noFilterSet(widget) =>
        /\ \A e \in CenterFeed : passesFilters(widget, e)
        /\ lastOp = "setCenter" /\ widget.emitted # <<>> =>
              \A i \in DOMAIN widget.m_earthquakes :
                  isEarthquakeVisible(widget, widget.m_earthquakes[i].data)
                      => widget.m_earthquakes[i].isVisible

----------------------------------------------------------------------------
(* Properties of the wheel zoom *)

\* the step from this zoom level is a multiple of the model's zoom unit
\* (1/20) before clamping, so the model takes it without rounding
exactStep(zoom, up) ==
    IF up THEN (zoom * ZOOM_FACTOR_NUM) % ZOOM_FACTOR_DEN = 0
          ELSE (zoom * ZOOM_FACTOR_DEN) % ZOOM_FACTOR_NUM = 0

\* where the point that is under the cursor before the wheel step is
\* drawn after it, minus the cursor, in 1/100 pixel
anchorDrift(w, point, up) ==
    LET cursorGeo == screenToLatLon(w, 100 * point[1], 100 * point[2])
        after == latLonToScreen(wheelEvent(w, point, up), cursorGeo.y, cursorGeo.x)
    IN [x |-> after.x - 100 * point[1], y |-> after.y - 100 * point[2]]

anchored(w, point, up) ==
    /\ Abs(anchorDrift(w, point, up).x) <= 100
    /\ Abs(anchorDrift(w, point, up).y) <= 100

\* C14: for every wheel step anchored at a cursor pixel, also a step whose
\* new zoom is clamped at a limit and a cursor whose longitude lies across
\* the +/-180 seam from the centre, the geographic point that was under the
\* cursor before the step is within 1 pixel of the cursor after it.
WheelKeepsCursorPoint ==
    \A p \in Cursors, up \in BOOLEAN :
        exactStep(widget.m_zoomLevel, up) => anchored(begin, p, up)

\* the step is not clamped, and the cursor and the new centre are on the
\* old centre's side of the seam
plainStep(w, point, up) ==
    /\ exactStep(w.m_zoomLevel, up)
    /\ (w.m_zoomLevel * ZOOM_FACTOR_NUM) \div ZOOM_FACTOR_DEN <= MAX_ZOOM
    /\ (w.m_zoomLevel * ZOOM_FACTOR_DEN) \div ZOOM_FACTOR_NUM >= MIN_ZOOM
    /\ Abs(screenToLatLon(w, 100 * point[1], 100 * point[2]).x
              - w.m_centerLongitude) <= 18000
    /\ Abs(wheelEvent(w, point, up).m_centerLongitude
              - w.m_centerLongitude) <= 18000

\* the wheel keeps the point under the cursor in the plain steps
PlainStepAnchored ==
    \A p \in Cursors, up \in BOOLEAN :
        plainStep(begin, p, up) => anchored(begin, p, up)

----------------------------------------------------------------------------
(* Properties of expandCluster and collapseCluster *)

\* C16: after any sequence of updateClusters, expandCluster, collapseCluster
\* and clearClusters, every marker index appears in the member list of at
\* most one cluster, and whenever a marker's clusterId is set it names a
\* cluster whose member list contains that marker.
MarkerInOneCluster ==
    /\ \A c \in DOMAIN widget.m_clusters :
          /\ Cardinality(members(widget, c)) = Len(widget.m_clusters[c].earthquakeIds)
          /\ \A d \in DOMAIN widget.m_clusters :
                c # d => members(widget, c) \cap members(widget, d) = {}
    /\ \A i \in DOMAIN widget.m_earthquakes :
          LET id == widget.m_earthquakes[i].clusterId
          IN id # 0 - 1 =>
                /\ id >= 0 /\ id < Len(widget.m_clusters)
                /\ i \in members(widget, id + 1)

\* the second of two clusters is expanded, and the first, expanded before,
\* has just been collapsed while its timer is pending
CollapsedBesideExpanded ==
    /\ lastOp = "collapseCluster"
    /\ Len(widget.m_clusters) = 2
    /\ ~widget.m_clusters[1].isExpanded
    /\ widget.m_clusters[2].isExpanded
    /\ widget.pendingSingleShots = 2
    /\ \A i \in members(widget, 1) : widget.m_earthquakes[i].clusterId = 0
    /\ \A i \in members(widget, 2) : widget.m_earthquakes[i].clusterId = 0 - 1

\* the markers after expandCluster(c): the members of c without a cluster,
\* the others as before
membersReleased(w, c) ==
    [i \in DOMAIN w.m_earthquakes |->
        IF i \in members(w, c + 1)
        THEN [w.m_earthquakes[i] EXCEPT !.clusterId = 0 - 1]
        ELSE w.m_earthquakes[i]]

\* C17: expandCluster(c) on a valid, not yet expanded cluster sets clusterId
\* to none for exactly the members of c, marks c expanded, and leaves the
\* Cluster record c, all other clusters and all other markers' clusterId
\* unchanged; an out-of-range c or an already expanded c changes nothing.
\* Stated in every reachable state for every c that could be expanded next.
ExpandReleasesMembersOnly ==
    \A c \in ClusterIds :
        LET after == expandCluster(begin, c)
        IN IF c >= 0 /\ c < Len(widget.m_clusters) /\ ~widget.m_clusters[c + 1].isExpanded
           THEN /\ after.m_earthquakes = membersReleased(widget, c)
                /\ after.m_clusters = [widget.m_clusters EXCEPT ![c + 1].isExpanded = TRUE]
           ELSE after = begin

\* the first of two clusters has just been expanded: its members have no
\* cluster, those of the second still have theirs
ExpandedBesideCluster ==
    /\ lastOp = "expandCluster"
    /\ Len(widget.m_clusters) = 2
    /\ widget.m_clusters[1].isExpanded
    /\ ~widget.m_clusters[2].isExpanded
    /\ \A i \in members(widget, 1) : widget.m_earthquakes[i].clusterId = 0 - 1
    /\ \A i \in members(widget, 2) : widget.m_earthquakes[i].clusterId = 1

----------------------------------------------------------------------------
(* Properties of a degenerate viewport *)

\* C18: with a viewport of zero width, zero height or zero zoom the widget
\* does not divide by zero in latLonToScreen, screenToLatLon or
\* updateVisibleBounds (so no handler is stuck on the result either), and
\* no marker gets a screen position until a valid size and zoom are set.
DegenerateViewportRefused ==
    /\ ~widget.dividedByZero
    /\ ~widget.hung
    /\ zeroDivisor(widget) => widget.m_earthquakes = <<>>

----------------------------------------------------------------------------
(* Properties of the projections *)

\* C19: in the Mercator and the Equirectangular mode,
\* unprojectCoordinate(projectCoordinate(lat, lon)) is (lat, lon) for every
\* lat in [-85, 85], both end points included, and every lon in (-180, 180].
RoundTripIsIdentity ==
    hit.kind = "unprojected" =>
        hit.point = [x |-> hit.longitude, y |-> hit.latitude]

\* the round trip gives the coordinate back for the latitudes inside
\* (-85, 85)
RoundTripInsideIsIdentity ==
    (hit.kind = "unprojected" /\ Abs(hit.latitude) < 8500) =>
        hit.point = [x |-> hit.longitude, y |-> hit.latitude]

----------------------------------------------------------------------------
(* Properties of parseCoordinate *)

\* the number a component stands for, white space around it set aside
numberOf(part) == toDouble(trimmed(part))

\* the input is two numbers, a latitude and a longitude, separated by a
\* comma, with optional white space around them
isLatLon(input) ==
    /\ Len(split(input)) = 2
    /\ \A k \in 1..2 : numberOf(split(input)[k]).ok
    /\ numberOf(split(input)[1]).value <= 90
    /\ numberOf(split(input)[2]).value <= 180

\* C20: parseCoordinate returns a valid coordinate carrying exactly the
\* parsed latitude and longitude for every input of the form 'lat,lon' with
\* optional surrounding white space, and returns an invalid coordinate
\* whenever fewer than two components are present or a component is not
\* numeric.
ParseCoordinateContract ==
    hit.kind = "coordinate" =>
        /\ isLatLon(hit.input) =>
              /\ hit.result.valid
              /\ hit.result.latitude = numberOf(split(hit.input)[1]).value
              /\ hit.result.longitude = numberOf(split(hit.input)[2]).value
        /\ (\/ Len(split(hit.input)) < 2
            \/ \E k \in DOMAIN split(hit.input) : ~numberOf(split(hit.input)[k]).ok)
              => ~hit.result.valid

\* inputs of one or two components are parsed as the claim says
TwoComponentsParsed ==
    (hit.kind = "coordinate" /\ Len(split(hit.input)) <= 2) =>
        /\ isLatLon(hit.input) <=> hit.result.valid
        /\ hit.result.valid =>
              /\ hit.result.latitude = numberOf(split(hit.input)[1]).value
              /\ hit.result.longitude = numberOf(split(hit.input)[2]).value

----------------------------------------------------------------------------
(* Properties of the data mutex: acquisition by the holder *)

\* C21: no operation tries to acquire the non-recursive data mutex while
\* the calling thread already holds it (so that every operation that locks
\* it releases it and returns).
NoLockWhileHeld == ~widget.m_dataMutex.relock

----------------------------------------------------------------------------
(* Properties of the index held across a lookup *)

\* C22: while a background thread calls removeEarthquake or
\* clearEarthquakes, the index that findEarthquakeAt returned is still in
\* range and still denotes the same record at the moment getEarthquakeAt or
\* mousePressEvent dereferences it.
IndexStillDenotesRecord ==
    (hit.kind = "pending" /\ hit.index >= 0) =>
        /\ hit.index < Len(widget.m_earthquakes)
        /\ widget.m_earthquakes[hit.index + 1].data.eventId = hit.found

----------------------------------------------------------------------------
(* Properties of the cluster aggregates *)

RECURSIVE sumOver(_, _)
\* the sum of f[i] over the set of positions
sumOver(positions, f) ==
    IF positions = {} THEN 0
    ELSE LET i == CHOOSE k \in positions : TRUE
         IN f[i] + sumOver(positions \ {i}, f)

\* the greatest of f[i] over a non-empty set of positions
maxOver(positions, f) ==
    CHOOSE v \in {f[i] : i \in positions} : \A i \in positions : f[i] <= v

\* cluster c (1-based) carries the aggregates of its members: magnitudes in
\* 1/100 for the mean, positions in 1/100 pixel
aggregatesExact(w, c) ==
    LET ms == members(w, c)
        n == Cardinality(ms)
        magnitude == [i \in ms |-> w.m_earthquakes[i].data.magnitude]
        timestamp == [i \in ms |-> w.m_earthquakes[i].data.timestamp]
        x == [i \in ms |-> w.m_earthquakes[i].screenPos.x]
        y == [i \in ms |-> w.m_earthquakes[i].screenPos.y]
        cluster == w.m_clusters[c]
    IN /\ cluster.maxMagnitude = maxOver(ms, magnitude)
       /\ cluster.avgMagnitude = (100 * sumOver(ms, magnitude)) \div n
       /\ cluster.latestTime = maxOver(ms, timestamp)
       /\ cluster.centerPos = [x |-> sumOver(ms, x) \div n, y |-> sumOver(ms, y) \div n]

\* C23: every cluster built by createCluster has maxMagnitude equal to the
\* maximum of its members' magnitudes, avgMagnitude equal to their mean,
\* latestTime equal to the latest member timestamp and centerPos equal to
\* the mean of the member screen positions, also when all magnitudes are
\* negative.
ClusterAggregatesExact ==
    lastOp \in ClusteringOps =>
        \A c \in DOMAIN widget.m_clusters : aggregatesExact(widget, c)

\* the aggregates are exact for the clusters with a member of magnitude
\* zero or more
AggregatesExactAboveZero ==
    lastOp \in ClusteringOps =>
        \A c \in DOMAIN widget.m_clusters :
            (\E i \in members(widget, c) : widget.m_earthquakes[i].data.magnitude >= 0)
                => aggregatesExact(widget, c)

----------------------------------------------------------------------------
(* Properties of the cluster threshold *)

\* the collection is two visible markers, and clustering is enabled
twoVisibleMarkers(w) ==
    /\ Len(w.m_earthquakes) = 2
    /\ w.m_earthquakes[1].isVisible /\ w.m_earthquakes[2].isVisible
    /\ w.m_settings.enableClustering

\* the screen distance of the two markers is at most t (1/100 pixel)
withinThreshold(w, t) ==
    LET dx == w.m_earthquakes[1].screenPos.x - w.m_earthquakes[2].screenPos.x
        dy == w.m_earthquakes[1].screenPos.y - w.m_earthquakes[2].screenPos.y
    IN dx * dx + dy * dy <= t * t

oneClusterOfBoth(w) ==
    /\ Len(w.m_clusters) = 1
    /\ w.m_clusters[1].earthquakeIds = <<0, 1>>
    /\ w.m_earthquakes[1].clusterId = 0 /\ w.m_earthquakes[2].clusterId = 0

noCluster(w) ==
    /\ w.m_clusters = <<>>
    /\ w.m_earthquakes[1].clusterId = 0 - 1 /\ w.m_earthquakes[2].clusterId = 0 - 1

\* setClusterDistance(t) groups the two markers exactly if they are within t
groupedByThreshold(w, t) ==
    IF withinThreshold(w, t)
    THEN oneClusterOfBoth(setClusterDistance(w, t))
    ELSE noCluster(setClusterDistance(w, t))

\* C24: for two visible markers at screen distance D with no other markers,
\* after setClusterDistance(t) with clustering enabled they form one cluster
\* of 2 members if D <= t and no cluster if D > t, for every t > 0 (D = 10
\* with t = 5 gives none).  Stated in every reachable state for every t that
\* could be set next.
ThresholdDecidesCluster ==
    twoVisibleMarkers(widget) =>
        \A t \in Thresholds : groupedByThreshold(begin, t)

\* the thresholds of 10 pixels and more decide as the claim says
ThresholdFromTenDecides ==
    twoVisibleMarkers(widget) =>
        \A t \in Thresholds : t >= 1000 => groupedByThreshold(begin, t)

----------------------------------------------------------------------------
(* Properties of the level of detail *)

\* C25: at every paint, the number of individually drawn markers is at most
\* the render cap of the level-of-detail tier determined by the current zoom
\* and visible count: 500 when zoom < 0.5 or visibleCount > 1000, otherwise
\* 1000 when zoom < 1.0 or visibleCount > 500, otherwise 10000.
DrawnWithinTierCap ==
    hit.kind = "painted" =>
        hit.drawn <= updateLevelOfDetail(widget).m_maxRenderingEarthquakes

----------------------------------------------------------------------------
(* Properties of the animation *)

\* the records that are at least 24 hours old at every value of the clock
oldRecord(data) == \A now \in Clock : now - data.timestamp >= 24

\* C26: every marker whose record is at least 24 hours old has
\* animationPhase = 1.0 in every state from the moment it is ingested,
\* whether the animation timer is running, stopped or disabled by settings.
OldMarkersAtFullPhase ==
    \A i \in DOMAIN widget.m_earthquakes :
        oldRecord(widget.m_earthquakes[i].data) =>
            widget.m_earthquakes[i].animationPhase = ConstantPhase(100)

\* once an enabled animation has ticked, the old markers present at the tick
\* are at phase 1.0
OldMarkersFullAfterTick ==
    (lastOp = "updateAnimation" /\ widget.m_animationEnabled) =>
        \A i \in DOMAIN widget.m_earthquakes :
            oldRecord(widget.m_earthquakes[i].data) =>
                widget.m_earthquakes[i].animationPhase = ConstantPhase(100)

----------------------------------------------------------------------------
(* Properties of the member lists across removals *)

\* the positions in the member list of cluster c are positions of w
memberPositionsValid(w, c) ==
    \A k \in DOMAIN w.m_clusters[c].earthquakeIds :
        w.m_clusters[c].earthquakeIds[k] + 1 \in DOMAIN w.m_earthquakes

\* C27: clusters refer to markers by position in the record collection; in
\* every reachable state, including after removeEarthquake not followed by
\* updateClusters, every index in every cluster's member list is a valid
\* position and denotes the same record that was grouped into that cluster.
\* Stated on the steps that keep the clusters: each listed position holds
\* the same event after the step as before it.
MembersKeepDenoting ==
    [][\A c \in DOMAIN widget.m_clusters :
          (/\ c \in DOMAIN widget'.m_clusters
           /\ widget'.m_clusters[c].earthquakeIds = widget.m_clusters[c].earthquakeIds
           /\ lastOp' \notin ClusteringOps
           /\ memberPositionsValid(widget, c)) =>
              \A k \in DOMAIN widget.m_clusters[c].earthquakeIds :
                  LET p == widget.m_clusters[c].earthquakeIds[k] + 1
                  IN /\ p \in DOMAIN widget'.m_earthquakes
                     /\ widget'.m_earthquakes[p].data.eventId =
                            widget.m_earthquakes[p].data.eventId]_vars

\* expandCluster and collapseCluster keep every record at its position
ExpandCollapseKeepPositions ==
    \A c \in ClusterIds :
        /\ [i \in DOMAIN widget.m_earthquakes |->
               expandCluster(begin, c).m_earthquakes[i].data.eventId]
              = [i \in DOMAIN widget.m_earthquakes |-> widget.m_earthquakes[i].data.eventId]
        /\ [i \in DOMAIN widget.m_earthquakes |->
               collapseCluster(begin, c).m_earthquakes[i].data.eventId]
              = [i \in DOMAIN widget.m_earthquakes |-> widget.m_earthquakes[i].data.eventId]

----------------------------------------------------------------------------
(* Properties of the selection *)

\* the ids in the selected-id list
listedIds(w) == {w.m_selectedIds[k] : k \in DOMAIN w.m_selectedIds}

\* no marker is flagged selected and the selected-id list is empty
nothingSelected(w) ==
    /\ w.m_selectedIds = <<>>
    /\ \A i \in DOMAIN w.m_earthquakes : ~w.m_earthquakes[i].isSelected

\* C28: after clearSelection() returns, no marker has isSelected = true and
\* the selected-id list is empty, whatever sequence of selectEarthquake(s),
\* mouse selection, ingestion and removal operations came before: a marker
\* is never flagged selected while its id is missing from the selected-id
\* list.  Stated in every reachable state for the clearSelection that could
\* run next.
ClearSelectionClearsAll ==
    /\ nothingSelected(clearSelection(begin))
    /\ \A i \in DOMAIN widget.m_earthquakes :
          widget.m_earthquakes[i].isSelected =>
              widget.m_earthquakes[i].data.eventId \in listedIds(widget)

\* clearSelection has just cleared a selection and both markers are there
ClearedAmongMarkers ==
    /\ lastOp = "clearSelection"
    /\ widget.emitted = <<"selectionChanged">>
    /\ Len(widget.m_earthquakes) = 2
    /\ nothingSelected(widget)

\* a release without Shift has just cleared a selection and selected both
\* markers in the rubber band
BandSelectedBoth ==
    /\ lastOp = "mouseReleaseEvent"
    /\ widget.emitted = <<"selectionChanged", "selectionChanged">>
    /\ Len(widget.m_earthquakes) = 2
    /\ Len(widget.m_selectedIds) = 2
    /\ \A i \in DOMAIN widget.m_earthquakes : widget.m_earthquakes[i].isSelected

----------------------------------------------------------------------------
(* Properties of the visible bounds *)

\* the record is in range and its screen position under the current view is
\* in the pixel rectangle of the viewport
drawnInViewport(w, data) ==
    /\ data.latitude >= 0 - 9000 /\ data.latitude <= 9000
    /\ data.longitude >= 0 - 18000 /\ data.longitude <= 18000
    /\ isInViewport(w, latLonToScreen(w, data.latitude, data.longitude))

\* the bounds as updateVisibleBounds computes them for the current view
boundsOf(w) == updateVisibleBounds(w).m_visibleBounds

\* C29: for every zoom in [MIN_ZOOM, MAX_ZOOM], including zoom < 1 where the
\* viewport spans more than 360 degrees of longitude, and every centre,
\* under the Equirectangular projection every in-range record whose screen
\* position lies inside the viewport pixel rectangle is contained in
\* visibleBounds as computed by updateVisibleBounds.
OnScreenIsInBounds ==
    widget.m_settings.projection = Equirectangular =>
        \A e \in BoundsFeed :
            drawnInViewport(widget, e) => contains(boundsOf(widget), e.latitude, e.longitude)

\* the view shows less than a full turn of longitude and does not reach
\* the seam
viewInsideTheMap(w) ==
    /\ w.m_zoomLevel > 20
    /\ w.m_centerLongitude - (360000 \div w.m_zoomLevel) > 0 - 18000
    /\ w.m_centerLongitude + (360000 \div w.m_zoomLevel) < 18000

\* in such a view the records on the screen are in the bounds
OnScreenIsInBoundsInsideTheMap ==
    (widget.m_settings.projection = Equirectangular /\ viewInsideTheMap(widget)) =>
        \A e \in BoundsFeed :
            drawnInViewport(widget, e) => contains(boundsOf(widget), e.latitude, e.longitude)

\* a record is on the screen of such a view
RecordOnScreenInsideTheMap ==
    /\ widget.m_settings.projection = Equirectangular
    /\ viewInsideTheMap(widget)
    /\ \E e \in BoundsFeed : drawnInViewport(widget, e)

----------------------------------------------------------------------------
(* Properties of flashEarthquake *)

\* the timer that has just stopped has ticked 2 * times times and its
\* marker, if there is one, is not highlighted
stoppedAsAsked(w, k) ==
    LET timer == w.flashTimers[k]
        i == indexOfId(w.m_earthquakes, timer.eventId)
    IN /\ timer.flashCount = 2 * timer.times
       /\ i # 0 => ~w.m_earthquakes[i].isHighlighted

\* C30: flashEarthquake(id, times) for every times >= 0 eventually stops its
\* timer after exactly 2 * times ticks (alternating highlight on/off) and
\* leaves the marker with isHighlighted = false when it stops.  The part on
\* the state in which a timer stops; that every timer stops is
\* FlashEventuallyStops.
FlashStopsAfterTwiceTimes ==
    (hit.kind = "flashTick" /\ hit.stopped) => stoppedAsAsked(widget, hit.timer)

\* the same for the calls with times >= 1
FlashStopsFromOnce ==
    (/\ hit.kind = "flashTick" /\ hit.stopped
     /\ widget.flashTimers[hit.timer].times >= 1) => stoppedAsAsked(widget, hit.timer)

\* a timer of a call with times >= 1 has just stopped on a marker
FlashStoppedOnMarker ==
    /\ hit.kind = "flashTick" /\ hit.stopped
    /\ widget.flashTimers[hit.timer].times >= 1
    /\ indexOfId(widget.m_earthquakes, widget.flashTimers[hit.timer].eventId) # 0

\* no timer is stopped before it has ticked
NoTimerStopsUnticked ==
    \A k \in DOMAIN widget.flashTimers :
        ~widget.flashTimers[k].active => widget.flashTimers[k].flashCount >= 1

\* every flash timer is stopped in the end
FlashEventuallyStops ==
    \A k \in 1..MaxTimers :
        (k \in DOMAIN widget.flashTimers)
            ~> (k \in DOMAIN widget.flashTimers /\ ~widget.flashTimers[k].active)

====
